---- MODULE Spec2Model ----
(***************************************************************************)
(* Model of the answer normalizer, the grading engine, the OCR answer      *)
(* extractor, the sheet grading loop and the lesson scheduler of           *)
(* teacheraid.                                                             *)
(*                                                                         *)
(* A JavaScript string is a sequence of one-character strings; a character *)
(* outside ASCII is written as its code point name ("U+00D7").             *)
(***************************************************************************)
EXTENDS Integers, Sequences, FiniteSets, TLC

VARIABLES
    nAnswer,    \* normalizeAnswer: the raw answer handed in
    nType,      \* normalizeAnswer: the question type handed in
    nOnce,      \* normalizeAnswer(nAnswer, nType)
    nTwice,     \* normalizeAnswer(nOnce, nType)
    nPc,        \* "start" | "once" | "twice"; "idle" when normalizeAnswer is not under study
    gStudent,   \* gradeQuestion: studentAnswer
    gCorrect,   \* gradeQuestion: correctAnswer
    gType,      \* gradeQuestion: questionType
    gOptions,   \* gradeQuestion: options (pointsPossible, acceptedVariants, tolerance)
    gResult,    \* gradeQuestion: the GradeResult returned
    gPc,        \* "call" | "done"; "idle" when gradeQuestion is not under study
    xText,      \* extractStudentAnswers: text
    xExpected,  \* extractStudentAnswers: expectedCount
    xLines,     \* extractStudentAnswers: lines
    xAnswers,   \* extractStudentAnswers: answers, a function on the populated numbers
    xLetters,   \* extractStudentAnswers: cleanLetters.slice(0, expectedCount)
    xIdx,       \* the position of the loop at work: a line, a lastIndex, a letter
    xLog,       \* the console.log messages about answers, in order
    xPc,        \* "call" | "lines" | "pairs" | "check3" | "letters" | "done";
                \* "idle" when extractStudentAnswers is not under study
    sImpl,      \* findNextAvailableSlot: "route" (schedule/route.ts) | "database" (database.ts)
    sNow,       \* findNextAvailableSlot: now, in seconds since 00:00 of the Sunday before it
    sRules,     \* findNextAvailableSlot: rules
    sDuration,  \* findNextAvailableSlot: duration, in minutes
    sBookings,  \* the user's rows of calendar_events
    sEvents,    \* findNextAvailableSlot: existingEvents
    sCandidates, \* findNextAvailableSlot: candidates
    sIdx,       \* the candidate the conflict loop is at
    sResult,    \* what findNextAvailableSlot returned
    sAlternatives, \* what findAlternativeSlots returned
    sPc,        \* "fetch" | "collect" | "sort" | "check" | "returned" | "done";
                \* "idle" when the scheduler is not under study
    kItems,     \* the grading loop: keyItems
    kStudentAnswers, \* the grading loop: studentAnswers
    kIdx,       \* the key item the loop is at
    kGrades,    \* the grading loop: questionGrades
    kEarned,    \* the grading loop: totalEarned
    kPossible,  \* the grading loop: totalPossible
    kReview,    \* result.needsReview of the message sent at the end
    kPc,        \* "loop" | "sent"; "idle" when the grading loop is not under study
    mA,         \* calculateSimilarity: a
    mB,         \* calculateSimilarity: b
    mResult,    \* calculateSimilarity(a, b)
    mSwapped,   \* calculateSimilarity(b, a)
    mPc,        \* "call" | "swap" | "done"; "idle" when calculateSimilarity is not under study
    jImpl,      \* rule selection: "route" (POST, schedule/route.ts) | "database"
    jSubject,   \* rule selection: subject
    jRules,     \* the user's active rows of auto_schedule_rules
    jMatching,  \* rule selection: matchingRules (route.ts), rules (database.ts)
    jPc,        \* "select" | "done"; "idle" when the rule selection is not under study
    bImpl,      \* auto-schedule requests: "route" (POST) | "database" (autoScheduleLesson)
    bNow,       \* the instant of the requests
    bRules,     \* the rules selected for the requests' subject
    bDuration,  \* duration, in minutes
    bStored,    \* the user's rows of calendar_events before the requests
    bTable,     \* the user's rows of calendar_events
    bReq,       \* per request: pc ("read" | "pick" | "insert" | "created" | "refused" |
                \* "failed"), existingEvents and slot; <<>> when the requests are not under study
    eImpl,      \* grading handler: "ocr" (part_002) | "ai" (scanner/grade/route.ts)
    ePc,        \* the await the handler is at: "auth" | "body" | "key" | "images" | "ai" |
                \* "save"; "ended" after `finally`; "idle" when the handler is not under study
    eSent,      \* the kinds of the objects handed to send(), in order
    eCtl        \* the stream and its controller: state, closeRequested, the chunks
                \* queued, a read of the consumer pending, the chunks the consumer got,
                \* the calls of controller.close(), the TypeErrors thrown

normVars == <<nAnswer, nType, nOnce, nTwice, nPc>>
gradeVars == <<gStudent, gCorrect, gType, gOptions, gResult, gPc>>
extractVars == <<xText, xExpected, xLines, xAnswers, xLetters, xIdx, xLog, xPc>>

scheduleVars ==
    <<sImpl, sNow, sRules, sDuration, sBookings, sEvents, sCandidates, sIdx, sResult,
      sAlternatives, sPc>>
sheetVars == <<kItems, kStudentAnswers, kIdx, kGrades, kEarned, kPossible, kReview, kPc>>

similarityVars == <<mA, mB, mResult, mSwapped, mPc>>

\* The variables of the parts modelled first, and of those modelled after them
earlyVars == <<normVars, gradeVars, extractVars, scheduleVars, sheetVars>>
subjectVars == <<jImpl, jSubject, jRules, jMatching, jPc>>
bookingVars == <<bImpl, bNow, bRules, bDuration, bStored, bTable, bReq>>
streamVars == <<eImpl, ePc, eSent, eCtl>>
lateVars == <<similarityVars, subjectVars, bookingVars, streamVars>>

vars == <<earlyVars, lateVars>>

(***************************************************************************)
(* A `const x = v` of the source: F applied to the value of v.  (A         *)
(* quantifier binds a value, computed once, where a LET or an operator's   *)
(* parameter stands for an expression that is computed at every use.)      *)
(***************************************************************************)
Bind(v, F(_)) == CHOOSE r \in {F(x) : x \in {v}} : TRUE
Bind2(v, w, F(_, _)) == CHOOSE r \in {F(x, y) : x \in {v}, y \in {w}} : TRUE

(***************************************************************************)
(* Strings                                                                 *)
(***************************************************************************)
Chars(str) == [i \in 1..Len(str) |-> SubSeq(str, i, i)]

QuestionTypes ==
    {"multiple_choice", "fill_in", "short_answer", "true_false", "math", "unknown"}

UpperLetters == Chars("ABCDEFGHIJKLMNOPQRSTUVWXYZ")
LowerLetters == Chars("abcdefghijklmnopqrstuvwxyz")

Digits == {"0", "1", "2", "3", "4", "5", "6", "7", "8", "9"}

\* The characters JavaScript's \s and trim() treat as white space.
IsSpace(c) == c \in {" ", "\t", "\n", "\r", "\f", "U+00A0"}

\* String.prototype.toLowerCase, one character.
LowerChar(c) ==
    IF \E i \in 1..26 : UpperLetters[i] = c
    THEN LowerLetters[CHOOSE i \in 1..26 : UpperLetters[i] = c]
    ELSE c

\* String.prototype.toUpperCase, one character.
UpperChar(c) ==
    IF \E i \in 1..26 : LowerLetters[i] = c
    THEN UpperLetters[CHOOSE i \in 1..26 : LowerLetters[i] = c]
    ELSE c

ToLowerCase(s) == [i \in 1..Len(s) |-> LowerChar(s[i])]
ToUpperCase(s) == [i \in 1..Len(s) |-> UpperChar(s[i])]

RECURSIVE TrimStart(_)
TrimStart(s) ==
    IF s # <<>> /\ IsSpace(Head(s)) THEN TrimStart(Tail(s)) ELSE s

RECURSIVE TrimEnd(_)
TrimEnd(s) ==
    IF s # <<>> /\ IsSpace(s[Len(s)]) THEN TrimEnd(SubSeq(s, 1, Len(s) - 1)) ELSE s

\* String.prototype.trim
Trim(s) == TrimEnd(TrimStart(s))

\* s.replace(/[class]/g, ''): drop every character of the class.
RemoveChars(s, class) == SelectSeq(s, LAMBDA c : c \notin class)

\* s.replace(/\s+/g, ' '): every maximal run of white space becomes one blank.
RECURSIVE CollapseSpaces(_)
CollapseSpaces(s) ==
    IF s = <<>> THEN <<>>
    ELSE IF IsSpace(Head(s))
         THEN <<" ">> \o CollapseSpaces(TrimStart(s))
         ELSE <<Head(s)>> \o CollapseSpaces(Tail(s))

TrailingPunct == {".", ",", ";", ":", "!", "?"}

\* s.replace(/[.,;:!?]+$/g, ''): drop the run of punctuation that ends the string.
RECURSIVE StripTrailingPunct(_)
StripTrailingPunct(s) ==
    IF s # <<>> /\ s[Len(s)] \in TrailingPunct
    THEN StripTrailingPunct(SubSeq(s, 1, Len(s) - 1))
    ELSE s

\* s.replace(/x/g, y) for single characters.
ReplaceChar(s, x, y) == [i \in 1..Len(s) |-> IF s[i] = x THEN y ELSE s[i]]

(***************************************************************************)
(* normalizeAnswer                                                         *)
(***************************************************************************)
\* The type-independent part: trim, lower-case, strip quotes, collapse white
\* space, strip trailing punctuation.
\* Mutant: the lower-casing is left out.
RemoveArtifactsKeepCase(answer) ==
    StripTrailingPunct(CollapseSpaces(RemoveChars(Trim(answer), {"'", "\""})))

RemoveArtifacts(answer) ==
    StripTrailingPunct(CollapseSpaces(RemoveChars(ToLowerCase(Trim(answer)), {"'", "\""})))

McLetters == {"a", "b", "c", "d", "e"}

\* normalized.match(/^([a-e])[\.\)\:]?\s*/): the pattern has no end anchor and
\* everything after the letter is optional, so it matches as soon as the first
\* character is a letter a-e.
\* The result is capture group 1, or <<>> (null) when there is no match.
LetterMatch(normalized) ==
    IF normalized # <<>> /\ Head(normalized) \in McLetters
    THEN <<Head(normalized)>>
    ELSE <<>>

NormalizeMultipleChoice(normalized) ==
    IF LetterMatch(normalized) # <<>>
    THEN LetterMatch(normalized)
    ELSE normalized   \* /^[a-e]$/ can only hold where LetterMatch already did

TrueWords ==
    {Chars("true"), Chars("t"), Chars("yes"), Chars("y"), Chars("1"), Chars("correct")}
FalseWords ==
    {Chars("false"), Chars("f"), Chars("no"), Chars("n"), Chars("0"), Chars("incorrect")}

NormalizeTrueFalse(normalized) ==
    IF normalized \in TrueWords THEN Chars("true")
    ELSE IF normalized \in FalseWords THEN Chars("false")
    ELSE normalized

NormalizeMath(normalized) ==
    RemoveChars(
        ReplaceChar(ReplaceChar(ReplaceChar(
            SelectSeq(normalized, LAMBDA c : ~IsSpace(c)),
            "U+00D7", "*"), "U+00F7", "/"), "U+2212", "-"),
        {","})

normalizeAnswer(answer, type) ==
    IF answer = <<>> THEN <<>>
    ELSE Bind(RemoveArtifacts(answer), LAMBDA normalized :
            CASE type = "multiple_choice" -> NormalizeMultipleChoice(normalized)
              [] type = "true_false" -> NormalizeTrueFalse(normalized)
              [] type = "math" -> NormalizeMath(normalized)
              [] OTHER -> normalized)

(***************************************************************************)
(* Numbers.  A JavaScript number is an IEEE-754 double: every arithmetic   *)
(* result is the exact result rounded to the nearest value with a 53-bit   *)
(* significand, ties to even.  The model computes exactly that, on natural *)
(* numbers of any size (a sequence of limbs, least significant first, with *)
(* no leading zero limb; <<>> is 0).  The magnitudes the model's inputs    *)
(* reach stay in the normal range, so neither overflow nor subnormals are  *)
(* modelled.                                                               *)
(***************************************************************************)
Base == 32768
LimbBits == 15
SignificandBits == 53

RECURSIVE BigNorm(_)
BigNorm(a) ==
    IF a # <<>> /\ a[Len(a)] = 0 THEN BigNorm(SubSeq(a, 1, Len(a) - 1)) ELSE a

RECURSIVE BigFromNat(_)
BigFromNat(n) == IF n = 0 THEN <<>> ELSE <<n % Base>> \o BigFromNat(n \div Base)

Limb0(a) == IF a = <<>> THEN 0 ELSE Head(a)
Rest(a) == IF a = <<>> THEN <<>> ELSE Tail(a)

RECURSIVE BigAddC(_, _, _)
BigAddC(a, b, c) ==
    IF a = <<>> /\ b = <<>> THEN BigFromNat(c)
    ELSE LET x == Limb0(a) + Limb0(b) + c
         IN  <<x % Base>> \o BigAddC(Rest(a), Rest(b), x \div Base)

BigAdd(a, b) == BigAddC(a, b, 0)

\* a - b - borrow, where a >= b + borrow; not normalized.
RECURSIVE BigSubB(_, _, _)
BigSubB(a, b, borrow) ==
    IF a = <<>> THEN <<>>
    ELSE LET x == Head(a) - Limb0(b) - borrow
         IN  IF x < 0 THEN <<x + Base>> \o BigSubB(Tail(a), Rest(b), 1)
                      ELSE <<x>> \o BigSubB(Tail(a), Rest(b), 0)

BigSub(a, b) == BigNorm(BigSubB(a, b, 0))

\* -1, 0 or 1 as a < b, a = b or a > b.
RECURSIVE BigCmpFrom(_, _, _)
BigCmpFrom(a, b, i) ==
    IF i = 0 THEN 0
    ELSE IF a[i] < b[i] THEN -1
    ELSE IF a[i] > b[i] THEN 1
    ELSE BigCmpFrom(a, b, i - 1)

BigCmp(a, b) ==
    IF Len(a) < Len(b) THEN -1
    ELSE IF Len(a) > Len(b) THEN 1
    ELSE BigCmpFrom(a, b, Len(a))

RECURSIVE BigMulSmallC(_, _, _)
BigMulSmallC(a, k, c) ==
    IF a = <<>> THEN BigFromNat(c)
    ELSE LET x == Head(a) * k + c
         IN  <<x % Base>> \o BigMulSmallC(Tail(a), k, x \div Base)

\* a * k for 0 <= k < Base
BigMulSmall(a, k) == BigNorm(BigMulSmallC(a, k, 0))

\* a * Base^n
BigShiftLimbs(a, n) == IF a = <<>> THEN <<>> ELSE [i \in 1..n |-> 0] \o a

RECURSIVE BigMul(_, _)
BigMul(a, b) ==
    IF a = <<>> \/ b = <<>> THEN <<>>
    ELSE BigAdd(BigMulSmall(a, Head(b)), BigShiftLimbs(BigMul(a, Tail(b)), 1))

\* a * 2^n
BigShl(a, n) == BigShiftLimbs(BigMulSmall(a, 2 ^ (n % LimbBits)), n \div LimbBits)

\* floor(a / 2^k)
RECURSIVE BigShrLimbs(_, _)
BigShrLimbs(a, r) ==
    IF a = <<>> THEN <<>>
    ELSE <<(Head(a) \div 2 ^ r)
            + (IF Len(a) > 1 THEN (a[2] % 2 ^ r) * 2 ^ (LimbBits - r) ELSE 0)>>
         \o BigShrLimbs(Tail(a), r)

BigShr(a, k) ==
    BigNorm(BigShrLimbs(SubSeq(a, k \div LimbBits + 1, Len(a)), k % LimbBits))

\* floor(a / 2)
BigHalf(a) == BigShr(a, 1)

BigIsOdd(a) == a # <<>> /\ a[1] % 2 = 1

RECURSIVE NatBitLen(_)
NatBitLen(n) == IF n = 0 THEN 0 ELSE 1 + NatBitLen(n \div 2)

BigBitLen(a) == IF a = <<>> THEN 0 ELSE LimbBits * (Len(a) - 1) + NatBitLen(a[Len(a)])

RECURSIVE BigPow10(_)
BigPow10(n) == IF n = 0 THEN <<1>> ELSE BigMulSmall(BigPow10(n - 1), 10)

\* The value of a string of decimal digits.
RECURSIVE BigFromDigits(_)
BigFromDigits(ds) ==
    IF ds = <<>> THEN <<>>
    ELSE BigAdd(BigMulSmall(BigFromDigits(SubSeq(ds, 1, Len(ds) - 1)), 10),
                BigFromNat(CHOOSE d \in 0..9 : Chars("0123456789")[d + 1] = ds[Len(ds)]))

\* Long division, one quotient bit a step.  st = [a, t, q]: a is what is left of
\* the dividend, t the divisor times a power of two (a < 2 * t), q the quotient
\* bits found so far.
BigDivStep(st) ==
    LET bit == BigCmp(st.a, st.t) >= 0
    IN  [a |-> IF bit THEN BigSub(st.a, st.t) ELSE st.a,
         t |-> BigHalf(st.t),
         q |-> BigAddC(st.q, st.q, IF bit THEN 1 ELSE 0)]

\* n steps
RECURSIVE BigDivBits(_, _)
BigDivBits(st, n) ==
    IF n = 0 THEN st
    ELSE Bind(BigDivStep(st), LAMBDA next : BigDivBits(next, n - 1))

\* k times LimbBits steps
RECURSIVE BigDivLimbs(_, _)
BigDivLimbs(st, k) ==
    IF k = 0 THEN st
    ELSE Bind(BigDivBits(st, LimbBits), LAMBDA next : BigDivLimbs(next, k - 1))

\* The quotient and remainder of num by den, where num < den * 2^bits.
BigDivMod(num, den, bits) ==
    Bind(BigDivBits(
            BigDivLimbs([a |-> num, t |-> BigShl(den, bits - 1), q |-> <<>>],
                        bits \div LimbBits),
            bits % LimbBits),
         LAMBDA st : [quot |-> st.q, rem |-> st.a])

\* A finite double is [kind |-> "num", neg, m, e]: (-1)^neg * m * 2^e with m = <<>>
\* (zero) or 2^52 <= m < 2^53.  The others are [kind |-> "inf", neg] and
\* [kind |-> "nan"].  [kind |-> "null"] is JavaScript's null.
DZero == [kind |-> "num", neg |-> FALSE, m |-> <<>>, e |-> 0]
DNaN == [kind |-> "nan"]
DInf(neg) == [kind |-> "inf", neg |-> neg]
DNull == [kind |-> "null"]

\* s such that n/d * 2^s lies in [2^52, 2^53); n > 0, d > 0.
RoundShift(n, d) ==
    LET ln == BigBitLen(n)
        ld == BigBitLen(d)
        \* n and d brought to the same bit length
        na == IF ld > ln THEN BigShl(n, ld - ln) ELSE n
        da == IF ln > ld THEN BigShl(d, ln - ld) ELSE d
    IN  (SignificandBits - 1) + ld - ln + (IF BigCmp(na, da) >= 0 THEN 0 ELSE 1)

\* The quotient and remainder of n * 2^s by d (of n by d * 2^-s when s < 0).
RoundDivide(n, d, s) ==
    IF d # <<1>>
    THEN BigDivMod(IF s >= 0 THEN BigShl(n, s) ELSE n,
                   IF s < 0 THEN BigShl(d, 0 - s) ELSE d,
                   SignificandBits)
    \* a division by 1 or by a power of two is a shift
    ELSE IF s >= 0 THEN [quot |-> BigShl(n, s), rem |-> <<>>]
    ELSE Bind(BigShr(n, 0 - s), LAMBDA quot :
            [quot |-> quot, rem |-> BigSub(n, BigShl(quot, 0 - s))])

\* The quotient qr.quot rounded to nearest, ties to even; den is the divisor.
RoundNearest(qr, den) ==
    Bind(BigCmp(BigAdd(qr.rem, qr.rem), den), LAMBDA twice :
        IF twice > 0 \/ (twice = 0 /\ BigIsOdd(qr.quot))
        THEN BigAdd(qr.quot, <<1>>)
        ELSE qr.quot)

\* The double nearest to (-1)^neg * (n / d) * 2^e0, ties to even; d > 0.
RoundRatio(neg, n0, d0, e0) ==
    Bind2(n0, d0, LAMBDA n, d :
        IF n = <<>> THEN [DZero EXCEPT !.neg = neg]
        ELSE Bind(RoundShift(n, d), LAMBDA s :
             Bind(RoundDivide(n, d, s), LAMBDA qr :
             Bind(RoundNearest(qr, IF s < 0 THEN BigShl(d, 0 - s) ELSE d), LAMBDA q :
                IF BigBitLen(q) > SignificandBits
                THEN [kind |-> "num", neg |-> neg, m |-> BigHalf(q), e |-> e0 - s + 1]
                ELSE [kind |-> "num", neg |-> neg, m |-> q, e |-> e0 - s]))))

\* The exact values x.m * 2^x.e and y.m * 2^y.e as naturals over a common unit.
Aligned(x, y) ==
    LET e == IF x.e < y.e THEN x.e ELSE y.e
    IN  [a |-> BigShl(x.m, x.e - e), b |-> BigShl(y.m, y.e - e), e |-> e]

IsZero(x) == x.kind = "num" /\ x.m = <<>>

\* Math.abs
DAbs(x0) ==
    Bind(x0, LAMBDA x : IF x.kind = "nan" THEN x ELSE [x EXCEPT !.neg = FALSE])

DNeg(x0) ==
    Bind(x0, LAMBDA x : IF x.kind = "nan" THEN x ELSE [x EXCEPT !.neg = ~x.neg])

\* x + y
DAdd(x0, y0) ==
    Bind2(x0, y0, LAMBDA x, y :
        IF x.kind = "nan" \/ y.kind = "nan" THEN DNaN
        ELSE IF x.kind = "inf"
             THEN IF y.kind = "inf" /\ y.neg # x.neg THEN DNaN ELSE x
        ELSE IF y.kind = "inf" THEN y
        ELSE Bind(Aligned(x, y), LAMBDA al :
                IF x.neg = y.neg
                THEN RoundRatio(x.neg, BigAdd(al.a, al.b), <<1>>, al.e)
                ELSE IF BigCmp(al.a, al.b) >= 0
                     THEN RoundRatio(x.neg /\ BigCmp(al.a, al.b) > 0,
                                     BigSub(al.a, al.b), <<1>>, al.e)
                     ELSE RoundRatio(y.neg, BigSub(al.b, al.a), <<1>>, al.e)))

\* x - y
DSub(x, y) == DAdd(x, DNeg(y))

\* x * y
DMul(x0, y0) ==
    Bind2(x0, y0, LAMBDA x, y :
        IF x.kind = "nan" \/ y.kind = "nan" THEN DNaN
        ELSE IF x.kind = "inf" \/ y.kind = "inf"
             THEN IF IsZero(x) \/ IsZero(y) THEN DNaN ELSE DInf(x.neg # y.neg)
        ELSE RoundRatio(x.neg # y.neg, BigMul(x.m, y.m), <<1>>, x.e + y.e))

\* x / y
DDiv(x0, y0) ==
    Bind2(x0, y0, LAMBDA x, y :
        IF x.kind = "nan" \/ y.kind = "nan" THEN DNaN
        ELSE IF x.kind = "inf"
             THEN IF y.kind = "inf" THEN DNaN ELSE DInf(x.neg # y.neg)
        ELSE IF y.kind = "inf" THEN [DZero EXCEPT !.neg = (x.neg # y.neg)]
        ELSE IF IsZero(y)
             THEN IF IsZero(x) THEN DNaN ELSE DInf(x.neg # y.neg)
        ELSE RoundRatio(x.neg # y.neg, x.m, y.m, x.e - y.e))

\* x <= y
DLeq(x0, y0) ==
    Bind2(x0, y0, LAMBDA x, y :
        IF x.kind = "nan" \/ y.kind = "nan" THEN FALSE
        ELSE IF x.kind = "inf" THEN x.neg \/ (y.kind = "inf" /\ ~y.neg)
        ELSE IF y.kind = "inf" THEN ~y.neg
        ELSE Bind(Aligned(x, y), LAMBDA al :
                CASE IsZero(x) /\ IsZero(y) -> TRUE
                  [] x.neg /\ ~y.neg -> TRUE
                  [] ~x.neg /\ y.neg -> FALSE
                  [] x.neg /\ y.neg -> BigCmp(al.a, al.b) >= 0
                  [] OTHER -> BigCmp(al.a, al.b) <= 0))

(***************************************************************************)
(* parseInt, parseFloat, parseNumber                                       *)
(***************************************************************************)
\* The longest prefix of s made of decimal digits.
RECURSIVE DigitRun(_)
DigitRun(s) ==
    IF s # <<>> /\ Head(s) \in Digits THEN <<Head(s)>> \o DigitRun(Tail(s)) ELSE <<>>

Drop(s, n) == SubSeq(s, n + 1, Len(s))

StartsWith(s, prefix) == Len(s) >= Len(prefix) /\ SubSeq(s, 1, Len(prefix)) = prefix

\* \d+
IsDigits(s) == s # <<>> /\ \A i \in 1..Len(s) : s[i] \in Digits

\* -?\d+
IsSignedDigits(s) == IsDigits(IF s # <<>> /\ Head(s) = "-" THEN Tail(s) ELSE s)

\* -?\d+(?:\.\d+)?
IsSignedDecimal(s) ==
    LET u == IF s # <<>> /\ Head(s) = "-" THEN Tail(s) ELSE s
        int == DigitRun(u)
        after == Drop(u, Len(int))
    IN  /\ int # <<>>
        /\ after = <<>> \/ (Head(after) = "." /\ IsDigits(Tail(after)))

\* A short string of digits as a natural number (an exponent).
RECURSIVE DigitsToNat(_)
DigitsToNat(ds) ==
    IF ds = <<>> THEN 0
    ELSE 10 * DigitsToNat(SubSeq(ds, 1, Len(ds) - 1))
         + (CHOOSE d \in 0..9 : Chars("0123456789")[d + 1] = ds[Len(ds)])

\* parseInt(s) for s matching -?\d+
ParseInt(s) ==
    IF Head(s) = "-"
    THEN RoundRatio(TRUE, BigNorm(BigFromDigits(Tail(s))), <<1>>, 0)
    ELSE RoundRatio(FALSE, BigNorm(BigFromDigits(s)), <<1>>, 0)

\* The decimal literal that starts u: its integer digits, its fraction digits and
\* its exponent (0 when none is written: an "e" counts only with digits after it).
ScanDecimal(u) ==
    Bind(DigitRun(u), LAMBDA int :
    Bind(Drop(u, Len(int)), LAMBDA afterInt :
    Bind(IF afterInt # <<>> /\ Head(afterInt) = "."
         THEN DigitRun(Tail(afterInt)) ELSE <<>>, LAMBDA frac :
    Bind(IF afterInt # <<>> /\ Head(afterInt) = "."
         THEN Drop(afterInt, 1 + Len(frac)) ELSE afterInt, LAMBDA afterFrac :
    Bind(IF (int # <<>> \/ frac # <<>>)
            /\ afterFrac # <<>> /\ Head(afterFrac) \in {"e", "E"}
         THEN Tail(afterFrac) ELSE <<>>, LAMBDA afterE :
    Bind(afterE # <<>> /\ Head(afterE) \in {"+", "-"}, LAMBDA expSigned :
    Bind(DigitsToNat(DigitRun(IF expSigned THEN Tail(afterE) ELSE afterE)), LAMBDA exp :
        [int |-> int,
         frac |-> frac,
         exp |-> IF expSigned /\ Head(afterE) = "-" THEN 0 - exp ELSE exp])))))))

\* parseFloat(s): the number written by the longest prefix of s (after leading
\* white space) that is a decimal literal: an optional sign, then Infinity, or
\* digits with an optional fraction, or a fraction alone, then an optional
\* exponent.  NaN when there is no such prefix.
ParseFloat(s) ==
    Bind(TrimStart(s), LAMBDA t :
    Bind(t # <<>> /\ Head(t) \in {"+", "-"}, LAMBDA signed :
    Bind(IF signed THEN Tail(t) ELSE t, LAMBDA u :
    Bind(ScanDecimal(u), LAMBDA lit :
    Bind(lit.exp - Len(lit.frac), LAMBDA scale :
        IF lit.int = <<>> /\ lit.frac = <<>>
        THEN IF StartsWith(u, Chars("Infinity"))
             THEN DInf(signed /\ Head(t) = "-") ELSE DNaN
        ELSE RoundRatio(signed /\ Head(t) = "-",
                        BigMul(BigNorm(BigFromDigits(lit.int \o lit.frac)),
                               BigPow10(IF scale > 0 THEN scale ELSE 0)),
                        BigPow10(IF scale < 0 THEN 0 - scale ELSE 0),
                        0))))))

\* The position of the only "/" of s, or 0.
SlashAt(s) ==
    LET at == {i \in 1..Len(s) : s[i] = "/"}
    IN  IF Cardinality(at) = 1 THEN CHOOSE i \in at : TRUE ELSE 0

\* str.match(/^(-?\d+)\/(\d+)$/): <<group 1, group 2>>, or <<>> for null.
FractionMatch(str) ==
    LET i == SlashAt(str)
    IN  IF i > 0 /\ IsSignedDigits(SubSeq(str, 1, i - 1)) /\ IsDigits(Drop(str, i))
        THEN <<SubSeq(str, 1, i - 1), Drop(str, i)>>
        ELSE <<>>

\* str.match(/^(-?\d+(?:\.\d+)?)\s*%$/): <<group 1>>, or <<>> for null.
PercentMatch(str) ==
    LET body == IF str = <<>> THEN <<>> ELSE TrimEnd(SubSeq(str, 1, Len(str) - 1))
    IN  IF str # <<>> /\ str[Len(str)] = "%" /\ IsSignedDecimal(body)
        THEN <<body>>
        ELSE <<>>

Hundred == RoundRatio(FALSE, BigFromNat(100), <<1>>, 0)

parseNumber(str) ==
    Bind2(FractionMatch(str), PercentMatch(str), LAMBDA fractionMatch, percentMatch :
        IF fractionMatch # <<>>
        THEN DDiv(ParseInt(fractionMatch[1]), ParseInt(fractionMatch[2]))
        ELSE IF percentMatch # <<>>
        THEN DDiv(ParseFloat(percentMatch[1]), Hundred)
        ELSE Bind(ParseFloat(str), LAMBDA num :
                IF num.kind = "nan" THEN DNull ELSE num))

(***************************************************************************)
(* The grading engine                                                      *)
(***************************************************************************)
\* A number literal of the source, such as 0.9
Literal(str) == ParseFloat(Chars(str))

\* An integer of the program (a length, a count) as a number
FromNat(n) == RoundRatio(FALSE, BigFromNat(n), <<1>>, 0)

\* x >= y
DGeq(x, y) == DLeq(y, x)

Min(x, y) == IF x < y THEN x ELSE y
Max(x, y) == IF x > y THEN x ELSE y

\* array.includes(x)
ArrayIncludes(array, x) == \E i \in 1..Len(array) : array[i] = x

\* s.includes(sub)
StringIncludes(s, sub) ==
    \E i \in 0..(Len(s) - Len(sub)) : SubSeq(s, i + 1, i + Len(sub)) = sub

\* One row of the edit-distance matrix: matrix[i][0..a.length], from the row
\* before it (prev), the cells of this row found so far (acc) and b.charAt(i - 1).
RECURSIVE LevRow(_, _, _, _)
LevRow(prev, acc, a, bc) ==
    IF Len(acc) = Len(a) + 1 THEN acc
    ELSE LET j == Len(acc)
             cell == IF bc = a[j]
                     THEN prev[j]
                     ELSE Min(prev[j] + 1, Min(acc[j] + 1, prev[j + 1] + 1))
         IN  Bind(Append(acc, cell), LAMBDA next : LevRow(prev, next, a, bc))

\* The last row of the matrix, from row i - 1.
RECURSIVE LevRows(_, _, _, _)
LevRows(prev, i, a, b) ==
    IF i > Len(b) THEN prev
    ELSE Bind(LevRow(prev, <<i>>, a, b[i]), LAMBDA row : LevRows(row, i + 1, a, b))

\* matrix[b.length][a.length]
Levenshtein(a, b) == LevRows([j \in 1..(Len(a) + 1) |-> j - 1], 1, a, b)[Len(a) + 1]

\* Mutant: the similarity divides by the shorter length.
calculateSimilarityMinLen(a, b) ==
    IF Len(a) = 0 THEN (IF Len(b) = 0 THEN FromNat(1) ELSE FromNat(0))
    ELSE IF Len(b) = 0 THEN FromNat(0)
    ELSE DSub(FromNat(1), DDiv(FromNat(Levenshtein(a, b)), FromNat(Min(Len(a), Len(b)))))

calculateSimilarity(a, b) ==
    IF Len(a) = 0 THEN (IF Len(b) = 0 THEN FromNat(1) ELSE FromNat(0))
    ELSE IF Len(b) = 0 THEN FromNat(0)
    ELSE DSub(FromNat(1), DDiv(FromNat(Levenshtein(a, b)), FromNat(Max(Len(a), Len(b)))))

\* s.split(/\s+/): the pieces between runs of white space (an empty piece where
\* s starts or ends with white space, and for the empty string).
RECURSIVE SplitSpaces(_, _)
SplitSpaces(s, piece) ==
    IF s = <<>> THEN <<piece>>
    ELSE IF IsSpace(Head(s)) THEN <<piece>> \o SplitSpaces(TrimStart(s), <<>>)
    ELSE SplitSpaces(Tail(s), Append(piece, Head(s)))

\* new Set(s.split(/\s+/).filter(w => w.length > 2))
WordSet(s) ==
    LET words == SplitSpaces(s, <<>>)
    IN  {words[i] : i \in {k \in 1..Len(words) : Len(words[k]) > 2}}

\* Mutant: the shared words are divided by the size of the smaller word set.
calculateWordOverlapMin(a, b) ==
    Bind2(WordSet(a), WordSet(b), LAMBDA wordsA, wordsB :
        IF Cardinality(wordsA) = 0 \/ Cardinality(wordsB) = 0 THEN FromNat(0)
        ELSE DDiv(FromNat(Cardinality(wordsA \cap wordsB)),
                  FromNat(Min(Cardinality(wordsA), Cardinality(wordsB)))))

calculateWordOverlap(a, b) ==
    Bind2(WordSet(a), WordSet(b), LAMBDA wordsA, wordsB :
        IF Cardinality(wordsA) = 0 \/ Cardinality(wordsB) = 0 THEN FromNat(0)
        ELSE DDiv(FromNat(Cardinality(wordsA \cap wordsB)),
                  FromNat(Max(Cardinality(wordsA), Cardinality(wordsB)))))

Verdict(isCorrect, confidence, needsReview) ==
    [isCorrect |-> isCorrect, confidence |-> confidence, needsReview |-> needsReview]

\* Mutant: only the first candidate, the key's own answer, is compared.
gradeMultipleChoicePrimary(student, correct) ==
    [isCorrect |-> student = correct[1],
     confidence |-> IF Len(student) = 1 THEN "0.95" ELSE "0.85"]

gradeMultipleChoice(student, correct) ==
    [isCorrect |-> ArrayIncludes(correct, student),
     confidence |-> IF Len(student) = 1 THEN "0.95" ELSE "0.85"]

gradeTrueFalse(student, correct) ==
    [isCorrect |-> student = correct, confidence |-> "0.95"]

\* The thresholds of gradeFillIn and gradeShortAnswer
FillInAccept == Literal("0.9")
FillInReview == Literal("0.75")
OverlapAccept == Literal("0.8")
OverlapReview == Literal("0.5")

\* The fuzzy-match loop of gradeFillIn, from candidate i on.
RECURSIVE FillInLoop(_, _, _)
FillInLoop(student, correct, i) ==
    IF i > Len(correct) THEN Verdict(FALSE, "0.8", FALSE)
    ELSE Bind(calculateSimilarity(student, correct[i]), LAMBDA similarity :
            IF DGeq(similarity, FillInAccept) THEN Verdict(TRUE, "0.85", FALSE)
            ELSE IF DGeq(similarity, FillInReview) THEN Verdict(FALSE, "0.6", TRUE)
            ELSE FillInLoop(student, correct, i + 1))

gradeFillIn(student, correct) ==
    IF ArrayIncludes(correct, student) THEN Verdict(TRUE, "0.95", FALSE)
    ELSE FillInLoop(student, correct, 1)

\* Mutant: the tolerance is taken as an absolute difference.
gradeMathAbsolute(student, correct, tolerance) ==
    Bind2(parseNumber(student), parseNumber(correct), LAMBDA studentNum, correctNum :
        IF studentNum.kind # "null" /\ correctNum.kind # "null"
        THEN Bind(DAbs(DSub(studentNum, correctNum)), LAMBDA diff :
                Verdict(DLeq(diff, DAbs(tolerance)), "0.9", FALSE))
        ELSE IF student = correct THEN Verdict(TRUE, "0.85", FALSE)
        ELSE Verdict(FALSE, "0.5", TRUE))

\* Mutant: the comparison is strict.
gradeMathStrict(student, correct, tolerance) ==
    Bind2(parseNumber(student), parseNumber(correct), LAMBDA studentNum, correctNum :
        IF studentNum.kind # "null" /\ correctNum.kind # "null"
        THEN Bind2(DAbs(DSub(studentNum, correctNum)), DAbs(DMul(correctNum, tolerance)),
                   LAMBDA diff, bound :
                      Verdict(DLeq(diff, bound) /\ ~DLeq(bound, diff), "0.9", FALSE))
        ELSE IF student = correct THEN Verdict(TRUE, "0.85", FALSE)
        ELSE Verdict(FALSE, "0.5", TRUE))

gradeMath(student, correct, tolerance) ==
    Bind2(parseNumber(student), parseNumber(correct), LAMBDA studentNum, correctNum :
        IF studentNum.kind # "null" /\ correctNum.kind # "null"
        THEN Bind(DAbs(DSub(studentNum, correctNum)), LAMBDA diff :
                Verdict(DLeq(diff, DAbs(DMul(correctNum, tolerance))), "0.9", FALSE))
        ELSE IF student = correct THEN Verdict(TRUE, "0.85", FALSE)
        ELSE Verdict(FALSE, "0.5", TRUE))

\* The word-overlap loop of gradeShortAnswer, from candidate i on.
RECURSIVE OverlapLoop(_, _, _)
OverlapLoop(student, correct, i) ==
    IF i > Len(correct) THEN Verdict(FALSE, "0.7", FALSE)
    ELSE Bind(calculateWordOverlap(student, correct[i]), LAMBDA similarity :
            IF DGeq(similarity, OverlapAccept) THEN Verdict(TRUE, "0.7", TRUE)
            ELSE IF DGeq(similarity, OverlapReview) THEN Verdict(FALSE, "0.5", TRUE)
            ELSE OverlapLoop(student, correct, i + 1))

\* Mutant: a containment match is accepted without the review flag.
gradeShortAnswerSilent(student, correct) ==
    IF ArrayIncludes(correct, student) THEN Verdict(TRUE, "0.95", FALSE)
    ELSE IF \E i \in 1..Len(correct) :
                StringIncludes(student, correct[i]) \/ StringIncludes(correct[i], student)
         THEN Verdict(TRUE, "0.75", FALSE)
    ELSE OverlapLoop(student, correct, 1)

gradeShortAnswer(student, correct) ==
    IF ArrayIncludes(correct, student) THEN Verdict(TRUE, "0.95", FALSE)
    ELSE IF \E i \in 1..Len(correct) :
                StringIncludes(student, correct[i]) \/ StringIncludes(correct[i], student)
         THEN Verdict(TRUE, "0.75", TRUE)
    ELSE OverlapLoop(student, correct, 1)

DefaultTolerance == Literal("0.01")

\* options.tolerance, 0.01 when it is not given
ToleranceOf(options) ==
    IF options.tolerance = "undefined" THEN DefaultTolerance ELSE Literal(options.tolerance)

\* The verdict of gradeQuestion's switch: isCorrect, confidence, needsReview.
\* Mutant: for an unknown type, an accepted variant counts as well.
GradeSwitchVariants(normalizedStudent, normalizedCorrect, allCorrectAnswers, questionType, options) ==
    CASE questionType = "multiple_choice" ->
            LET r == gradeMultipleChoice(normalizedStudent, allCorrectAnswers)
            IN  Verdict(r.isCorrect, r.confidence, FALSE)
      [] questionType = "true_false" ->
            LET r == gradeTrueFalse(normalizedStudent, normalizedCorrect)
            IN  Verdict(r.isCorrect, r.confidence, FALSE)
      [] questionType = "fill_in" -> gradeFillIn(normalizedStudent, allCorrectAnswers)
      [] questionType = "math" ->
            gradeMath(normalizedStudent, normalizedCorrect, ToleranceOf(options))
      [] questionType = "short_answer" ->
            gradeShortAnswer(normalizedStudent, allCorrectAnswers)
      [] OTHER -> Verdict(ArrayIncludes(allCorrectAnswers, normalizedStudent), "0.5", TRUE)

GradeSwitch(normalizedStudent, normalizedCorrect, allCorrectAnswers, questionType, options) ==
    CASE questionType = "multiple_choice" ->
            LET r == gradeMultipleChoice(normalizedStudent, allCorrectAnswers)
            IN  Verdict(r.isCorrect, r.confidence, FALSE)
      [] questionType = "true_false" ->
            LET r == gradeTrueFalse(normalizedStudent, normalizedCorrect)
            IN  Verdict(r.isCorrect, r.confidence, FALSE)
      [] questionType = "fill_in" -> gradeFillIn(normalizedStudent, allCorrectAnswers)
      [] questionType = "math" ->
            gradeMath(normalizedStudent, normalizedCorrect, ToleranceOf(options))
      [] questionType = "short_answer" ->
            gradeShortAnswer(normalizedStudent, allCorrectAnswers)
      [] OTHER -> Verdict(normalizedStudent = normalizedCorrect, "0.5", TRUE)

\* Mutant: the two branches of the conditional are swapped.
PointsEarnedSwapped(isCorrect, pointsPossible) ==
    IF isCorrect THEN 0 ELSE pointsPossible

\* isCorrect ? pointsPossible : 0
PointsEarned(isCorrect, pointsPossible) ==
    IF isCorrect THEN pointsPossible ELSE 0

\* [normalizedCorrect, ...acceptedVariants.map(v => normalizeAnswer(v, questionType))]
AllCorrectAnswers(correctAnswer, questionType, options) ==
    <<normalizeAnswer(correctAnswer, questionType)>> \o
    [i \in 1..Len(options.acceptedVariants) |->
        normalizeAnswer(options.acceptedVariants[i], questionType)]

gradeQuestion(studentAnswer, correctAnswer, questionType, options) ==
    Bind2(normalizeAnswer(studentAnswer, questionType),
          normalizeAnswer(correctAnswer, questionType),
          LAMBDA normalizedStudent, normalizedCorrect :
    Bind(AllCorrectAnswers(correctAnswer, questionType, options), LAMBDA allCorrectAnswers :
    Bind(GradeSwitch(normalizedStudent, normalizedCorrect, allCorrectAnswers,
                     questionType, options), LAMBDA v :
        [isCorrect |-> v.isCorrect,
         confidence |-> v.confidence,
         pointsEarned |-> PointsEarned(v.isCorrect, options.pointsPossible),
         needsReview |-> v.needsReview,
         feedback |-> IF v.needsReview THEN "Manual review recommended" ELSE "undefined"])))

(***************************************************************************)
(* extractStudentAnswers: the patterns                                     *)
(***************************************************************************)
\* [A-Ea-e]
IsAnswerLetter(c) == c \in {"A", "B", "C", "D", "E", "a", "b", "c", "d", "e"}

\* [.\)\s:\-]
IsSeparator(c) == c \in {".", ")", ":", "-"} \/ IsSpace(c)

\* The longest prefix of s made of separators.
RECURSIVE SeparatorRun(_)
SeparatorRun(s) ==
    IF s # <<>> /\ IsSeparator(Head(s)) THEN <<Head(s)>> \o SeparatorRun(Tail(s)) ELSE <<>>

\* (?:\s|$) at the start of s
SpaceOrEnd(s) == s = <<>> \/ IsSpace(Head(s))

\* [Qq#]
IsQuestionMark(c) == c \in {"Q", "q", "#"}

\* The characters "." does not match.
LineTerminators == {"\n", "\r"}

\* A match is <<group 1, group 2>>; <<>> is null.  In every pattern the digits
\* and the separators are the longest runs: what follows them is neither.
\* /^(\d+)[.\)\s:\-]*([A-Ea-e])(?:\s|$|[.\)])/i
LetterPattern(t) ==
    Bind(DigitRun(t), LAMBDA num :
    Bind(Drop(t, Len(num) + Len(SeparatorRun(Drop(t, Len(num))))), LAMBDA rest :
        IF /\ num # <<>>
           /\ rest # <<>>
           /\ IsAnswerLetter(Head(rest))
           /\ \/ SpaceOrEnd(Tail(rest))
              \/ rest[2] \in {".", ")"}
        THEN <<num, <<Head(rest)>>>>
        ELSE <<>>))

\* true|false|t|f|yes|no, in the order the pattern tries them
TrueFalseWords ==
    <<Chars("true"), Chars("false"), Chars("t"), Chars("f"), Chars("yes"), Chars("no")>>

\* s starts with word, whatever the case of its letters
StartsWithIgnoreCase(s, word) ==
    Len(s) >= Len(word) /\ ToLowerCase(SubSeq(s, 1, Len(word))) = word

\* /^(\d+)[.\)\s:\-]*(true|false|t|f|yes|no)(?:\s|$)/i
TrueFalsePattern(t) ==
    Bind(DigitRun(t), LAMBDA num :
    Bind(Drop(t, Len(num) + Len(SeparatorRun(Drop(t, Len(num))))), LAMBDA rest :
    Bind({i \in 1..Len(TrueFalseWords) :
            /\ StartsWithIgnoreCase(rest, TrueFalseWords[i])
            /\ SpaceOrEnd(Drop(rest, Len(TrueFalseWords[i])))}, LAMBDA found :
        IF num # <<>> /\ found # {}
        THEN <<num, SubSeq(rest, 1, Len(TrueFalseWords[CHOOSE i \in found :
                                                         \A j \in found : i <= j]))>>
        ELSE <<>>)))

\* /^[Qq#]?(\d+)[.\)\s:\-]+([A-Ea-e])(?:\s|$)/i
MarkedLetterPattern(t) ==
    Bind(IF t # <<>> /\ IsQuestionMark(Head(t)) THEN Tail(t) ELSE t, LAMBDA u :
    Bind(DigitRun(u), LAMBDA num :
    Bind(SeparatorRun(Drop(u, Len(num))), LAMBDA sep :
    Bind(Drop(u, Len(num) + Len(sep)), LAMBDA rest :
        IF /\ num # <<>>
           /\ sep # <<>>
           /\ rest # <<>>
           /\ IsAnswerLetter(Head(rest))
           /\ SpaceOrEnd(Tail(rest))
        THEN <<num, <<Head(rest)>>>>
        ELSE <<>>))))

\* /^(\d+)\s*[=\-]\s*([A-Ea-e])(?:\s|$)/i
EqualsPattern(t) ==
    Bind(DigitRun(t), LAMBDA num :
    Bind(TrimStart(Drop(t, Len(num))), LAMBDA sign :
    Bind(IF sign = <<>> THEN <<>> ELSE TrimStart(Tail(sign)), LAMBDA rest :
        IF /\ num # <<>>
           /\ sign # <<>>
           /\ Head(sign) \in {"=", "-"}
           /\ rest # <<>>
           /\ IsAnswerLetter(Head(rest))
           /\ SpaceOrEnd(Tail(rest))
        THEN <<num, <<Head(rest)>>>>
        ELSE <<>>)))

\* /^(\d+)[.\)\s:\-]*\(?([A-Ea-e])\)?(?:\s|$)/i
MarkedPattern(t) ==
    Bind(DigitRun(t), LAMBDA num :
    Bind(Drop(t, Len(num) + Len(SeparatorRun(Drop(t, Len(num))))), LAMBDA open :
    Bind(IF open # <<>> /\ Head(open) = "(" THEN Tail(open) ELSE open, LAMBDA rest :
    Bind(IF Len(rest) >= 2 /\ rest[2] = ")" THEN Drop(rest, 2) ELSE Drop(rest, 1),
         LAMBDA after :
        IF /\ num # <<>>
           /\ rest # <<>>
           /\ IsAnswerLetter(Head(rest))
           /\ SpaceOrEnd(after)
        THEN <<num, <<Head(rest)>>>>
        ELSE <<>>))))

\* (\d+)[.\)\s:\-]+(.+)$ at the start of u: the separators are the longest run,
\* less its last character when nothing else is left for the answer.
TextAfterNumber(u) ==
    Bind(DigitRun(u), LAMBDA num :
    Bind(SeparatorRun(Drop(u, Len(num))), LAMBDA sep :
    Bind(Drop(u, Len(num) + Len(sep)), LAMBDA rest :
    Bind(IF rest # <<>> THEN rest
         ELSE IF Len(sep) >= 2 THEN <<sep[Len(sep)]>>
         ELSE <<>>, LAMBDA answer :
        IF /\ num # <<>>
           /\ sep # <<>>
           /\ answer # <<>>
           /\ \A i \in 1..Len(answer) : answer[i] \notin LineTerminators
        THEN <<num, answer>>
        ELSE <<>>))))

\* /^(\d+)[.\)\s:\-]+(.+)$/
TextPattern(t) == TextAfterNumber(t)

\* /^[Qq#](\d+)[.\)\s:\-]+(.+)$/
MarkedTextPattern(t) ==
    IF t # <<>> /\ IsQuestionMark(Head(t)) THEN TextAfterNumber(Tail(t)) ELSE <<>>

\* patterns, in the order the loop tries them
Patterns(t) ==
    <<LetterPattern(t), TrueFalsePattern(t), MarkedLetterPattern(t), EqualsPattern(t),
      MarkedPattern(t), TextPattern(t), MarkedTextPattern(t)>>

\* The match of the first pattern that matches t; <<>> when none does.
FirstMatch(t) ==
    Bind(Patterns(t), LAMBDA matches :
        IF \A k \in 1..Len(matches) : matches[k] = <<>> THEN <<>>
        ELSE matches[CHOOSE k \in 1..Len(matches) :
                        /\ matches[k] # <<>>
                        /\ \A j \in 1..(k - 1) : matches[j] = <<>>])

\* match[2].trim(), in upper case when it is a single letter A-E
AnswerText(group) ==
    Bind(Trim(group), LAMBDA answerText :
        IF Len(answerText) = 1 /\ IsAnswerLetter(Head(answerText))
        THEN ToUpperCase(answerText)
        ELSE answerText)

\* The largest question number the line patterns accept
MaxQuestionNum == 200

\* Lines longer than this are skipped
MaxLineLength == 100

\* The first position of s from `from` on that satisfies At, or 0.
FirstPosition(s, from, At(_)) ==
    Bind({p \in from..Len(s) : At(p)}, LAMBDA found :
        IF found = {} THEN 0 ELSE CHOOSE p \in found : \A q \in found : p <= q)

\* text.split('\n')
RECURSIVE SplitLines(_)
SplitLines(text) ==
    Bind(FirstPosition(text, 1, LAMBDA p : text[p] = "\n"), LAMBDA break :
        IF break = 0 THEN <<text>>
        ELSE <<SubSeq(text, 1, break - 1)>> \o SplitLines(Drop(text, break)))

\* text.split('\n').filter((line) => line.trim())
Lines(text) == SelectSeq(SplitLines(text), LAMBDA line : Trim(line) # <<>>)

\* Object.keys(answers).length
AnswerCount(answers) == Cardinality(DOMAIN answers)

\* Mutant: an answer already there is replaced.
Overwrite(answers, questionNum, answerText) ==
    [n \in DOMAIN answers \cup {questionNum} |->
        IF n = questionNum THEN answerText ELSE answers[n]]

\* if (!answers[questionNum]) answers[questionNum] = answerText
Record(answers, questionNum, answerText) ==
    IF questionNum \in DOMAIN answers THEN answers
    ELSE [n \in DOMAIN answers \cup {questionNum} |->
            IF n = questionNum THEN answerText ELSE answers[n]]

\* A console.log message about answers: what it says, the number and the text in it.
Message(msg, num, text) == [msg |-> msg, num |-> num, text |-> text]

\* /(\d+)\s*[.\)\:\-]?\s*([A-Ea-e])(?:\s|[.\)\,]|$)/gi tried at position p of s:
\* <<group 1, group 2, the position after the match>>, or <<>>.
PairAt(s, p) ==
    Bind(DigitRun(Drop(s, p - 1)), LAMBDA num :
    Bind(TrimStart(Drop(s, p - 1 + Len(num))), LAMBDA mark :
    Bind(TrimStart(IF mark # <<>> /\ Head(mark) \in {".", ")", ":", "-"}
                   THEN Tail(mark) ELSE mark), LAMBDA rest :
        IF /\ num # <<>>
           /\ rest # <<>>
           /\ IsAnswerLetter(Head(rest))
           /\ \/ SpaceOrEnd(Tail(rest))
              \/ rest[2] \in {".", ")", ","}
        THEN <<num, <<Head(rest)>>,
               IF Len(rest) = 1 THEN Len(s) + 1 ELSE Len(s) - Len(rest) + 3>>
        ELSE <<>>)))

\* simplePattern.exec(allText) with lastIndex = from - 1: the match at the first
\* position from `from` on where there is one.
NextPair(s, from) ==
    Bind(FirstPosition(s, from, LAMBDA p : PairAt(s, p) # <<>>), LAMBDA start :
        IF start = 0 THEN <<>> ELSE PairAt(s, start))

\* [\s\n\r.,;:()]
IsDelimiter(c) == IsSpace(c) \/ c \in {".", ",", ";", ":", "(", ")"}

\* ^ with the m flag, at position p of s
LineStartAt(s, p) == p = 1 \/ s[p - 1] \in LineTerminators

\* The end of \s*(?:$|[\s\n\r.,;:()]) at the start of tail, as the number of
\* characters it takes, or -1 when it does not match.  The white space is taken
\* whole when the input ends after it or a punctuation delimiter follows; if not
\* its last character is given back, and is then the delimiter, or is left out
\* of the match when it is a line terminator ($ with the m flag).
LetterTail(tail) ==
    Bind(Len(tail) - Len(TrimStart(tail)), LAMBDA spaces :
        IF spaces = Len(tail) THEN spaces
        ELSE IF IsDelimiter(tail[spaces + 1]) THEN spaces + 1
        ELSE IF spaces = 0 THEN -1
        ELSE IF tail[spaces] \in LineTerminators THEN spaces - 1
        ELSE spaces)

\* /(?:^|[\s\n\r.,;:()])\s*([A-Ea-e])\s*(?:$|[\s\n\r.,;:()])/gm tried at position
\* p of s: <<the text matched, the position after the match>>, or <<>>.
LetterAt(s, p) ==
    Bind(IF IsDelimiter(s[p]) THEN TrimStart(Drop(s, p))
         ELSE IF LineStartAt(s, p) THEN Drop(s, p - 1)
         ELSE <<>>, LAMBDA rest :
        IF rest = <<>> \/ ~IsAnswerLetter(Head(rest)) THEN <<>>
        ELSE Bind(LetterTail(Tail(rest)), LAMBDA taken :
                IF taken < 0 THEN <<>>
                ELSE Bind(Len(s) - Len(rest) + 2 + taken, LAMBDA end :
                        <<SubSeq(s, p, end - 1), end>>)))

\* text.match(...): the texts matched from position `from` on, in order.
RECURSIVE LetterMatches(_, _)
LetterMatches(s, from) ==
    Bind(FirstPosition(s, from, LAMBDA p : LetterAt(s, p) # <<>>), LAMBDA start :
        IF start = 0 THEN <<>>
        ELSE Bind(LetterAt(s, start), LAMBDA match :
                <<match[1]>> \o LetterMatches(s, match[2])))

\* letterMatches.map(m => m.trim().toUpperCase())
CleanLetters(letterMatches) ==
    [i \in 1..Len(letterMatches) |-> ToUpperCase(Trim(letterMatches[i]))]

\* Mutant: the array is not cut.
Unsliced(array, n) == array

\* array.slice(0, n)
Slice(array, n) == SubSeq(array, 1, Min(n, Len(array)))

\* Mutant: the answers are compared with expectedCount itself.
FewerThanExpected(count, expectedCount, divisor) ==
    ~DLeq(FromNat(expectedCount), FromNat(count))

\* count < expectedCount / divisor, as the numbers of the program
FewerThan(count, expectedCount, divisor) ==
    ~DLeq(DDiv(FromNat(expectedCount), FromNat(divisor)), FromNat(count))

Half == Literal("0.5")

\* letterMatches && letterMatches.length >= expectedCount * 0.5
EnoughLetters(letterMatches, expectedCount) ==
    /\ letterMatches # <<>>
    /\ DGeq(FromNat(Len(letterMatches)), DMul(FromNat(expectedCount), Half))

\* text.replace(/\n/g, ' ')
AllText(text) == ReplaceChar(text, "\n", " ")

\* What a line of the text has the line loop record: <<questionNum, answerText>>,
\* or <<>> when the line is skipped, matches no pattern, or its match is rejected.
LineAnswer(line) ==
    Bind(Trim(line), LAMBDA trimmed :
        IF Len(trimmed) > MaxLineLength THEN <<>>
        ELSE Bind(FirstMatch(trimmed), LAMBDA match :
                IF match = <<>> THEN <<>>
                ELSE Bind2(DigitsToNat(match[1]), AnswerText(match[2]),
                           LAMBDA questionNum, answerText :
                              IF /\ questionNum > 0
                                 /\ questionNum <= MaxQuestionNum
                                 /\ answerText # <<>>
                              THEN <<questionNum, answerText>>
                              ELSE <<>>)))

(***************************************************************************)
(* Specification SpecNorm: normalizeAnswer applied once and twice          *)
(***************************************************************************)
MaxNormLen == 3

NormAlphabet == {"a", "B", "x", " ", ".", ")", "'"}

StringsUpTo(alphabet, n) == UNION {[1..k -> alphabet] : k \in 0..n}

\* Answers as they are written on a sheet: a letter A-E in either case, an
\* optional '.', ')' or ':' after it, white space around it; and whole words.
LetterAnswers ==
    {lead \o <<l>> \o p \o trail :
        lead \in {<<>>, <<" ">>}, l \in McLetters \cup {UpperChar(c) : c \in McLetters},
        p \in {<<>>, <<".">>, <<")">>, <<":">>}, trail \in {<<>>, <<" ">>, <<"\t">>}}

WordAnswers ==
    {Chars("dog"), Chars("apple"), Chars("Dog."), Chars("banana"), Chars("true"),
     Chars("1,000"), <<"3", " ", "U+00D7", " ", "4">>, Chars("a . ."), Chars("\"b\".")}

NormInputs == StringsUpTo(NormAlphabet, MaxNormLen) \cup LetterAnswers \cup WordAnswers

NormIdle ==
    /\ nAnswer = <<>>
    /\ nType = "unknown"
    /\ nOnce = <<>>
    /\ nTwice = <<>>
    /\ nPc = "idle"

NoResult ==
    [isCorrect |-> FALSE, confidence |-> "0", pointsEarned |-> 0, needsReview |-> FALSE,
     feedback |-> "undefined"]

GradeIdle ==
    /\ gStudent = <<>>
    /\ gCorrect = <<>>
    /\ gType = "unknown"
    /\ gOptions = [pointsPossible |-> 1, acceptedVariants |-> <<>>, tolerance |-> "undefined"]
    /\ gResult = NoResult
    /\ gPc = "idle"

ExtractIdle ==
    /\ xText = <<>>
    /\ xExpected = 0
    /\ xLines = <<>>
    /\ xAnswers = <<>>
    /\ xLetters = <<>>
    /\ xIdx = 0
    /\ xLog = <<>>
    /\ xPc = "idle"

\* No slot yet: findNextAvailableSlot has not returned
Pending == [kind |-> "pending"]

\* `data` of a query that failed
NullData == [isNull |-> TRUE, rows |-> <<>>]

ScheduleIdle ==
    /\ sImpl = "route"
    /\ sNow = 0
    /\ sRules = <<>>
    /\ sDuration = 0
    /\ sBookings = <<>>
    /\ sEvents = NullData
    /\ sCandidates = <<>>
    /\ sIdx = 0
    /\ sResult = Pending
    /\ sAlternatives = <<>>
    /\ sPc = "idle"

SheetIdle ==
    /\ kItems = <<>>
    /\ kStudentAnswers = <<>>
    /\ kIdx = 0
    /\ kGrades = <<>>
    /\ kEarned = 0
    /\ kPossible = 0
    /\ kReview = 0
    /\ kPc = "idle"

SimilarityIdle ==
    /\ mA = <<>>
    /\ mB = <<>>
    /\ mResult = "undefined"
    /\ mSwapped = "undefined"
    /\ mPc = "idle"

EarlyIdle == NormIdle /\ GradeIdle /\ ExtractIdle /\ ScheduleIdle /\ SheetIdle

SubjectIdle ==
    /\ jImpl = "route"
    /\ jSubject = <<>>
    /\ jRules = <<>>
    /\ jMatching = <<>>
    /\ jPc = "idle"

BookingIdle ==
    /\ bImpl = "route"
    /\ bNow = 0
    /\ bRules = <<>>
    /\ bDuration = 0
    /\ bStored = <<>>
    /\ bTable = <<>>
    /\ bReq = <<>>

\* A stream as `new ReadableStream({start})` makes it
NewStream ==
    [state |-> "readable", closeRequested |-> FALSE, queue |-> <<>>, pending |-> FALSE,
     delivered |-> <<>>, closeCalls |-> 0, typeErrors |-> 0]

StreamIdle ==
    /\ eImpl = "ocr"
    /\ ePc = "idle"
    /\ eSent = <<>>
    /\ eCtl = NewStream

LateIdle == SimilarityIdle /\ SubjectIdle /\ BookingIdle /\ StreamIdle

InitNorm ==
    /\ LateIdle
    /\ GradeIdle
    /\ ExtractIdle
    /\ ScheduleIdle
    /\ SheetIdle
    /\ nAnswer \in NormInputs
    /\ nType \in QuestionTypes
    /\ nOnce = <<>>
    /\ nTwice = <<>>
    /\ nPc = "start"

NormalizeOnce ==
    /\ nPc = "start"
    /\ nOnce' = normalizeAnswer(nAnswer, nType)
    /\ nPc' = "once"
    /\ UNCHANGED <<nAnswer, nType, nTwice, gradeVars, extractVars,
                   scheduleVars, sheetVars, lateVars>>

NormalizeTwice ==
    /\ nPc = "once"
    /\ nTwice' = normalizeAnswer(nOnce, nType)
    /\ nPc' = "twice"
    /\ UNCHANGED <<nAnswer, nType, nOnce, gradeVars, extractVars,
                   scheduleVars, sheetVars, lateVars>>

NextNorm == NormalizeOnce \/ NormalizeTwice

SpecNorm == InitNorm /\ [][NextNorm]_vars

(***************************************************************************)
(* Claims about normalizeAnswer                                            *)
(***************************************************************************)
\* C6: normalizeAnswer is idempotent for every question type: normalizing a
\* normalized answer again gives the same string.
NormalizeIdempotent == nPc = "twice" => nTwice = nOnce

McPunct == {".", ")", ":"}

\* s is white space, a letter A-E in either case, optional white space, at most
\* one of '.', ')' and ':', white space.
IsLetterForm(s) ==
    LET t == Trim(s)
        rest == IF t = <<>> THEN <<>> ELSE TrimStart(Tail(t))
    IN  /\ t # <<>>
        /\ LowerChar(Head(t)) \in McLetters
        /\ rest = <<>> \/ (Len(rest) = 1 /\ rest[1] \in McPunct)

\* C7: for multiple_choice, a letter A-E in either case, optionally followed by
\* one of '.', ')' or ':' and surrounded by optional white space, normalizes to
\* the single lower-case letter.
McLetterNormalizesToLowerLetter ==
    (nPc # "start" /\ nType = "multiple_choice" /\ IsLetterForm(nAnswer))
        => nOnce = <<LowerChar(Head(Trim(nAnswer)))>>

\* C7 witness: "b)" has been normalized as a multiple-choice answer, to "b".
McLetterNormalizedWitness ==
    /\ nPc = "once"
    /\ nType = "multiple_choice"
    /\ nAnswer = Chars("b)")
    /\ nOnce = Chars("b")

\* r is a single letter a-e, optionally followed by '.', ')' or ':', and white space.
IsBareLetter(r) ==
    /\ r # <<>>
    /\ Head(r) \in McLetters
    /\ LET rest == Tail(r)
           after == IF rest # <<>> /\ Head(rest) \in McPunct THEN Tail(rest) ELSE rest
       IN  \A i \in 1..Len(after) : IsSpace(after[i])

\* C8: for multiple_choice, an answer that after trimming, lower-casing and
\* punctuation stripping is not a single letter a-e (with optional '.', ')' or
\* ':' and white space) is returned unchanged, not collapsed to its first letter.
McWordReturnedUnchanged ==
    (nPc # "start" /\ nType = "multiple_choice" /\ ~IsBareLetter(RemoveArtifacts(nAnswer)))
        => nOnce = RemoveArtifacts(nAnswer)

(***************************************************************************)
(* Specification SpecGrade: one call of gradeQuestion                      *)
(***************************************************************************)
MaxPoints == 2
MaxVariants == 1

SeqsUpTo(pool, n) == UNION {[1..k -> pool] : k \in 0..n}

CharsOf(strs) == {Chars(str) : str \in strs}

\* The answers a call is tried on, by question type: what the student wrote,
\* the key's correct answer, and the pool its accepted variants come from.
GradeInputs(type) ==
    CASE type = "multiple_choice" ->
            [student |-> CharsOf({"B", "b)", " c. ", "dog", "", "AB"}),
             correct |-> CharsOf({"B", "D"}),
             variant |-> CharsOf({"C", "d)"})]
      [] type = "true_false" ->
            [student |-> CharsOf({"T", "true", "Yes", "False", "n", "maybe", ""}),
             correct |-> CharsOf({"True", "false"}),
             variant |-> CharsOf({"yes"})]
      [] type = "fill_in" ->
            [student |-> CharsOf({"abcdefghij", "abcdefghik", "abcdefghxy", "abcdefghxk",
                                  "abcd", "abce", "abxy", "", "Paris.", "pariz"}),
             correct |-> CharsOf({"abcdefghij", "abcd", "Paris"}),
             variant |-> CharsOf({"abce", "abcdefghik"})]
      [] type = "short_answer" ->
            [student |-> CharsOf({"the cell wall", "cell wall", "wall", "", "nucleus",
                                  "red green blue pink teal", "red green blue", "red blue",
                                  "big red green", "red blue green", "pink green red"}),
             correct |-> CharsOf({"cell wall", "red green blue pink gray", "red green"}),
             variant |-> CharsOf({"red green pink", "the nucleus"})]
      [] type = "math" ->
            [student |-> CharsOf({"10.05", "10.005", "10", "10.1", "10.11", "9.9", "10.5",
                                  "1.01", "0.99", "0", "-0", "0.001", "1/2", "0.505", "50%",
                                  "1/0", "0/0", "2*3", "12abc", "x+1", "", "1,000", "1e3"}),
             correct |-> CharsOf({"10", "1", "0", "0.5", "1/2", "50 %", "1000", "2*3", "x+1",
                                  "12"}),
             variant |-> CharsOf({"11"})]
      [] OTHER ->
            [student |-> CharsOf({"B", "b.", "x", ""}),
             correct |-> CharsOf({"B", "x"}),
             variant |-> CharsOf({"b", "y"})]

Tolerances(type) == IF type = "math" THEN {"undefined", "0.01", "0.05"} ELSE {"undefined"}

InitGrade ==
    /\ LateIdle
    /\ NormIdle
    /\ ExtractIdle
    /\ ScheduleIdle
    /\ SheetIdle
    /\ gType \in QuestionTypes
    /\ gStudent \in GradeInputs(gType).student
    /\ gCorrect \in GradeInputs(gType).correct
    /\ gOptions \in [pointsPossible : 0..MaxPoints,
                      acceptedVariants : SeqsUpTo(GradeInputs(gType).variant, MaxVariants),
                      tolerance : Tolerances(gType)]
    /\ gResult = NoResult
    /\ gPc = "call"

GradeQuestion ==
    /\ gPc = "call"
    /\ gResult' = gradeQuestion(gStudent, gCorrect, gType, gOptions)
    /\ gPc' = "done"
    /\ UNCHANGED <<gStudent, gCorrect, gType, gOptions, normVars, extractVars,
                   scheduleVars, sheetVars, lateVars>>

NextGrade == GradeQuestion

SpecGrade == InitGrade /\ [][NextGrade]_vars

(***************************************************************************)
(* Claims about gradeQuestion                                              *)
(***************************************************************************)
Graded == gPc = "done"

\* What gradeQuestion compares: the normalized answer and the candidates.
NormStudent == normalizeAnswer(gStudent, gType)
Candidates == AllCorrectAnswers(gCorrect, gType, gOptions)
ExactMatch == ArrayIncludes(Candidates, NormStudent)

\* C1: gradeQuestion returns pointsEarned = pointsPossible when isCorrect is true
\* and pointsEarned = 0 when it is false, and no other value (no partial credit).
PayoutIsBinary ==
    Graded =>
        /\ gResult.isCorrect => gResult.pointsEarned = gOptions.pointsPossible
        /\ ~gResult.isCorrect => gResult.pointsEarned = 0
        /\ gResult.pointsEarned \in {0, gOptions.pointsPossible}

\* C1 witness: a fuzzy accept (flagged for review) earned all of its 2 points.
PayoutWitness ==
    /\ Graded
    /\ gResult.isCorrect
    /\ gResult.needsReview
    /\ gOptions.pointsPossible = 2
    /\ gResult.pointsEarned = 2

\* C2: a fill_in or short_answer answer that is graded correct without being
\* equal to a candidate (a fuzzy positive match) is flagged for review.
FuzzyAcceptNeedsReview ==
    (Graded /\ gType \in {"fill_in", "short_answer"} /\ gResult.isCorrect /\ ~ExactMatch)
        => gResult.needsReview

\* The similarity of a and b is at least num/den, in exact arithmetic.
SimilarityAtLeast(a, b, num, den) ==
    IF Len(a) = 0 \/ Len(b) = 0 THEN (Len(a) = Len(b) \/ num = 0)
    ELSE den * (Max(Len(a), Len(b)) - Levenshtein(a, b)) >= num * Max(Len(a), Len(b))

\* The word overlap of a and b is at least num/den, in exact arithmetic.
OverlapAtLeast(a, b, num, den) ==
    IF WordSet(a) = {} \/ WordSet(b) = {} THEN num = 0
    ELSE den * Cardinality(WordSet(a) \cap WordSet(b))
            >= num * Max(Cardinality(WordSet(a)), Cardinality(WordSet(b)))

\* fill_in: no exact match, and the first candidate with similarity >= 0.75 has
\* similarity < 0.9.
FillInReviewBranch ==
    /\ gType = "fill_in"
    /\ ~ExactMatch
    /\ \E i \in 1..Len(Candidates) :
          /\ SimilarityAtLeast(NormStudent, Candidates[i], 3, 4)
          /\ ~SimilarityAtLeast(NormStudent, Candidates[i], 9, 10)
          /\ \A j \in 1..(i - 1) : ~SimilarityAtLeast(NormStudent, Candidates[j], 3, 4)

Contained ==
    \E i \in 1..Len(Candidates) :
        StringIncludes(NormStudent, Candidates[i]) \/ StringIncludes(Candidates[i], NormStudent)

\* short_answer: no exact match, a candidate contains the answer or is contained in it.
ContainmentBranch == gType = "short_answer" /\ ~ExactMatch /\ Contained

\* short_answer: no exact match, no containment, and some candidate has word
\* overlap >= 0.5 (the first such candidate decides, with ratio in [0.5, 0.8) or >= 0.8).
OverlapBranch ==
    /\ gType = "short_answer"
    /\ ~ExactMatch
    /\ ~Contained
    /\ \E i \in 1..Len(Candidates) : OverlapAtLeast(NormStudent, Candidates[i], 1, 2)

\* C3: every verdict of the fill_in branch with similarity in [0.75, 0.9), of the
\* short_answer containment branch and of the short_answer word-overlap branch
\* with ratio >= 0.5 is flagged for review.
FuzzyBranchesNeedReview ==
    (Graded /\ (FillInReviewBranch \/ ContainmentBranch \/ OverlapBranch))
        => gResult.needsReview

\* C3 witness: a short answer was accepted on word overlap (4 of 5 words) and flagged.
FuzzyBranchWitness ==
    /\ Graded
    /\ OverlapBranch
    /\ gResult.isCorrect
    /\ gResult.needsReview

\* The call of the math-tolerance example: math, 1 point, no variants, tolerance
\* 0.01 (given or by default), correct answer "10".
MathExampleCall ==
    /\ Graded
    /\ gType = "math"
    /\ gOptions.pointsPossible = 1
    /\ gOptions.acceptedVariants = <<>>
    /\ gOptions.tolerance \in {"undefined", "0.01"}
    /\ gCorrect = Chars("10")

\* C4 (as claimed): "10.05" against "10" is graded incorrect and "10.005"
\* against "10" is graded correct.
MathToleranceExampleAsClaimed ==
    MathExampleCall =>
        /\ gStudent = Chars("10.05") => ~gResult.isCorrect
        /\ gStudent = Chars("10.005") => gResult.isCorrect

\* C4 (amended): "10.05" against "10" is graded correct (it is 0.5% off, within
\* the 1% tolerance), and so is "10.005"; "10.11" (1.1% off) is graded incorrect.
MathToleranceExample ==
    MathExampleCall =>
        /\ gStudent = Chars("10.05") => gResult.isCorrect
        /\ gStudent = Chars("10.005") => gResult.isCorrect
        /\ gStudent = Chars("10.11") => ~gResult.isCorrect

\* C4 witness: "10.05" has been graded against "10", as correct.
MathToleranceWitness ==
    /\ MathExampleCall
    /\ gStudent = Chars("10.05")
    /\ gResult.isCorrect
    /\ gResult.pointsEarned = 1

\* |x - y| as an exact value m * 2^e
ExactDistance(x, y) ==
    LET al == Aligned(x, y)
    IN  IF x.neg = y.neg \/ IsZero(x) \/ IsZero(y)
        THEN [m |-> IF BigCmp(al.a, al.b) >= 0 THEN BigSub(al.a, al.b) ELSE BigSub(al.b, al.a),
              e |-> al.e]
        ELSE [m |-> BigAdd(al.a, al.b), e |-> al.e]

\* |x * y| as an exact value m * 2^e
ExactProduct(x, y) == [m |-> BigMul(x.m, y.m), e |-> x.e + y.e]

\* u <= v for exact values
ExactLeq(u, v) == BigCmp(Aligned(u, v).a, Aligned(u, v).b) <= 0

\* C5: for a math question whose two normalized answers parse as numbers s and
\* c, the verdict has confidence 0.9 and no review flag, and isCorrect holds
\* exactly when |s - c| <= |c| * tolerance (computed without rounding); when
\* c = 0 only s = 0 is correct.
MathRelativeTolerance ==
    (Graded /\ gType = "math") =>
        LET s == parseNumber(NormStudent)
            c == parseNumber(normalizeAnswer(gCorrect, gType))
        IN  (s.kind # "null" /\ c.kind # "null") =>
                /\ gResult.confidence = "0.9"
                /\ ~gResult.needsReview
                /\ (s.kind = "num" /\ c.kind = "num") =>
                      /\ gResult.isCorrect <=>
                            ExactLeq(ExactDistance(s, c), ExactProduct(c, ToleranceOf(gOptions)))
                      /\ IsZero(c) => (gResult.isCorrect <=> IsZero(s))

\* C5 witness: the correct answer is 0 and the answer 0.001 was graded incorrect.
MathZeroWitness ==
    /\ Graded
    /\ gType = "math"
    /\ gCorrect = Chars("0")
    /\ gStudent = Chars("0.001")
    /\ ~gResult.isCorrect
    /\ gResult.confidence = "0.9"

\* Some candidate's similarity to the normalized answer, as calculateSimilarity
\* computes it, is at least the threshold.
SomeSimilarity(threshold) ==
    \E i \in 1..Len(Candidates) :
        DGeq(calculateSimilarity(NormStudent, Candidates[i]), threshold)

\* C16: for fill_in, an exact match is correct with confidence 0.95; else some
\* candidate with similarity >= 0.9 makes the verdict correct with confidence
\* 0.85; else some candidate with similarity in [0.75, 0.9) makes it not
\* correct, for review, confidence 0.6; else it is incorrect, confidence 0.8,
\* not for review.
FillInBestCandidateDecides ==
    Graded /\ gType = "fill_in" =>
        IF ExactMatch
        THEN gResult.isCorrect /\ gResult.confidence = "0.95"
        ELSE IF SomeSimilarity(FillInAccept)
        THEN gResult.isCorrect /\ gResult.confidence = "0.85"
        ELSE IF SomeSimilarity(FillInReview)
        THEN ~gResult.isCorrect /\ gResult.needsReview /\ gResult.confidence = "0.6"
        ELSE ~gResult.isCorrect /\ ~gResult.needsReview /\ gResult.confidence = "0.8"

\* The first candidate whose word overlap with the normalized answer reaches
\* 1/2; 0 when there is none
FirstOverlapping ==
    Bind({i \in 1..Len(Candidates) : OverlapAtLeast(NormStudent, Candidates[i], 1, 2)},
         LAMBDA found :
            IF found = {} THEN 0 ELSE CHOOSE i \in found : \A k \in found : i <= k)

\* C17: for short_answer, an exact match is correct, confidence 0.95, not for
\* review; else containment in either direction with some candidate is correct,
\* for review, confidence 0.75; else the word overlap (shared words of more than
\* 2 characters over the size of the larger word set) decides: >= 0.8 is
\* correct, for review, confidence 0.7; [0.5, 0.8) is incorrect, for review,
\* confidence 0.5; below 0.5 is incorrect, confidence 0.7, not for review.  With
\* several candidates the overlap that decides is that of the first candidate
\* to reach 0.5.
ShortAnswerLadder ==
    Graded /\ gType = "short_answer" =>
        IF ExactMatch
        THEN gResult.isCorrect /\ gResult.confidence = "0.95" /\ ~gResult.needsReview
        ELSE IF Contained
        THEN gResult.isCorrect /\ gResult.confidence = "0.75" /\ gResult.needsReview
        ELSE IF FirstOverlapping = 0
        THEN ~gResult.isCorrect /\ gResult.confidence = "0.7" /\ ~gResult.needsReview
        ELSE IF OverlapAtLeast(NormStudent, Candidates[FirstOverlapping], 4, 5)
        THEN gResult.isCorrect /\ gResult.confidence = "0.7" /\ gResult.needsReview
        ELSE ~gResult.isCorrect /\ gResult.confidence = "0.5" /\ gResult.needsReview

\* C17 witness: no exact match, no containment, and word sets of different
\* sizes with an overlap in [0.5, 0.8)
ShortAnswerOverlapWitness ==
    /\ Graded
    /\ gType = "short_answer"
    /\ ~ExactMatch
    /\ ~Contained
    /\ FirstOverlapping # 0
    /\ ~OverlapAtLeast(NormStudent, Candidates[FirstOverlapping], 4, 5)
    /\ Cardinality(WordSet(NormStudent)) # Cardinality(WordSet(Candidates[FirstOverlapping]))
    /\ gResult.confidence = "0.5"

\* C18: for multiple_choice, isCorrect holds exactly when the normalized
\* answer is one of the candidates (the normalized correct answer and the
\* normalized variants); confidence is 0.95 when the normalized answer is one
\* character long and 0.85 otherwise, the empty answer included; needsReview is
\* false.
MultipleChoiceVerdict ==
    Graded /\ gType = "multiple_choice" =>
        /\ gResult.isCorrect <=> \E i \in 1..Len(Candidates) : Candidates[i] = NormStudent
        /\ gResult.confidence = IF Len(NormStudent) = 1 THEN "0.95" ELSE "0.85"
        /\ ~gResult.needsReview

\* C18 witness: an answer that matches a variant and not the key's own answer
VariantChoiceWitness ==
    /\ Graded
    /\ gType = "multiple_choice"
    /\ gResult.isCorrect
    /\ NormStudent # Candidates[1]
    /\ gResult.confidence = "0.95"

\* C19: for the type unknown every verdict is for review with confidence 0.5,
\* and isCorrect holds exactly when the normalized answer equals the normalized
\* correct answer: an accepted variant never makes an answer correct.
UnknownVerdict ==
    Graded /\ gType = "unknown" =>
        /\ gResult.needsReview
        /\ gResult.confidence = "0.5"
        /\ gResult.isCorrect <=> NormStudent = normalizeAnswer(gCorrect, gType)

\* C19 witness: the answer equals an accepted variant, not the correct answer,
\* and is not correct
UnknownVariantWitness ==
    /\ Graded
    /\ gType = "unknown"
    /\ NormStudent # Candidates[1]
    /\ \E i \in 2..Len(Candidates) : Candidates[i] = NormStudent
    /\ ~gResult.isCorrect

\* A plain decimal -?\d+(\.\d+)?, a fraction a/b, or a percentage n%
PlainNumber(s) ==
    \/ IsSignedDecimal(s)
    \/ \E k \in 2..(Len(s) - 1) :
          /\ s[k] = "/"
          /\ IsSignedDigits(SubSeq(s, 1, k - 1))
          /\ IsDigits(SubSeq(s, k + 1, Len(s)))
    \/ s # <<>> /\ s[Len(s)] = "%" /\ IsSignedDecimal(SubSeq(s, 1, Len(s) - 1))

\* C20: for math, when the normalized answer or the normalized correct answer
\* is not a plain decimal, a fraction a/b or a percentage n%, the verdict is
\* that of string equality: equal strings are correct with confidence 0.85 and
\* not for review, unequal strings are incorrect, for review, confidence 0.5.
MathFallsBackToStrings ==
    Graded /\ gType = "math"
           /\ ~(PlainNumber(NormStudent) /\ PlainNumber(normalizeAnswer(gCorrect, gType))) =>
        IF NormStudent = normalizeAnswer(gCorrect, gType)
        THEN gResult.isCorrect /\ gResult.confidence = "0.85" /\ ~gResult.needsReview
        ELSE ~gResult.isCorrect /\ gResult.confidence = "0.5" /\ gResult.needsReview

\* C26: for every question type, when the correct answer and all accepted
\* variants are non-empty after normalization, an empty student answer (what
\* the grading loop hands over for a question without an extracted answer) is
\* graded isCorrect = false with pointsEarned = 0.
EmptyAnswerEarnsNothing ==
    (/\ Graded
     /\ gStudent = <<>>
     /\ \A i \in 1..Len(Candidates) : Candidates[i] # <<>>)
    => /\ ~gResult.isCorrect
       /\ gResult.pointsEarned = 0

\* The empty short answer that is graded correct: every candidate includes ""
EmptyShortAnswerCorrect ==
    /\ Graded
    /\ gType = "short_answer"
    /\ gStudent = <<>>
    /\ gCorrect = Chars("cell wall")
    /\ gOptions.acceptedVariants = <<>>
    /\ gOptions.pointsPossible = 1
    /\ gResult.isCorrect
    /\ gResult.confidence = "0.75"
    /\ gResult.needsReview
    /\ gResult.pointsEarned = 1

\* The answers that count as correct, as given: the primary one, then the variants
Acceptable == <<gCorrect>> \o gOptions.acceptedVariants

\* The list with the answers at i and j exchanged
Exchanged(answers, i, j) ==
    [k \in 1..Len(answers) |->
        IF k = i THEN answers[j] ELSE IF k = j THEN answers[i] ELSE answers[k]]

\* gradeQuestion with the first of the answers as correctAnswer and the rest
\* as acceptedVariants
GradedWith(answers) ==
    gradeQuestion(gStudent, Head(answers), gType,
                  [gOptions EXCEPT !.acceptedVariants = Tail(answers)])

\* C27: for fill_in and short_answer questions the result of gradeQuestion is
\* the same whichever of the acceptable answers is the primary one and in
\* whatever order the variants are listed (every permutation is a product of
\* exchanges of two answers).
VerdictIgnoresCandidateOrder ==
    (Graded /\ gType \in {"fill_in", "short_answer"}) =>
        \A i, j \in 1..Len(Acceptable) :
            GradedWith(Exchanged(Acceptable, i, j)) = gResult

\* The fill_in answer whose verdict turns with the order: 0.8 similar to the
\* primary answer, 0.9 similar to the variant
OrderDecidesFillIn ==
    /\ Graded
    /\ gType = "fill_in"
    /\ gStudent = Chars("abcdefghxk")
    /\ gCorrect = Chars("abcdefghij")
    /\ gOptions.acceptedVariants = <<Chars("abcdefghik")>>
    /\ ~gResult.isCorrect
    /\ GradedWith(<<Chars("abcdefghik"), Chars("abcdefghij")>>).isCorrect

(***************************************************************************)
(* Specification SpecExtract: extractStudentAnswers, a loop turn a step    *)
(***************************************************************************)
MaxLines == 2
MaxExpected == 6

\* The lines joined by "\n"
RECURSIVE JoinLines(_)
JoinLines(lines) ==
    IF lines = <<>> THEN <<>>
    ELSE IF Len(lines) = 1 THEN lines[1]
    ELSE lines[1] \o <<"\n">> \o JoinLines(Tail(lines))

LinePool ==
    CharsOf({"1. A", "2. b", "5. B", "1) True", "Q2: c", "3 = d", "A", "1 a 2 b 3 c"})

LongLine == Chars("1. ") \o [i \in 1..MaxLineLength |-> "x"]

SampleTexts ==
    CharsOf({"1. A\n2. B\n3. C", "5. A\n5. B", "A\nB\nC\nD", "1. A\nB\nC\nD",
             "A\nB\n2. x", "0. A\n201. B", "1. A\n \n2. B", "answers: 1a,2b,3c",
             "1.\n2..", "A B C D", "1. a.m.", "(A) (B) (C)", "3 - e\n#4 no",
             "4 (e)\n2. paris", "Q1: rome\nb c\nd"})
    \cup {LongLine \o Chars("\n2. C")}

Texts == SampleTexts \cup {JoinLines(lines) : lines \in SeqsUpTo(LinePool, MaxLines)}

InitExtract ==
    /\ LateIdle
    /\ NormIdle
    /\ GradeIdle
    /\ ScheduleIdle
    /\ SheetIdle
    /\ xText \in Texts
    /\ xExpected \in 0..MaxExpected
    /\ xLines = <<>>
    /\ xAnswers = <<>>
    /\ xLetters = <<>>
    /\ xIdx = 0
    /\ xLog = <<>>
    /\ xPc = "call"

\* const lines = text.split('\n').filter(...)
SplitText ==
    /\ xPc = "call"
    /\ xLines' = Lines(xText)
    /\ xIdx' = 1
    /\ xPc' = "lines"
    /\ UNCHANGED <<xText, xExpected, xAnswers, xLetters, xLog, normVars, gradeVars,
                   scheduleVars, sheetVars, lateVars>>

\* One turn of `for (const line of lines)`
MatchLine ==
    /\ xPc = "lines"
    /\ xIdx <= Len(xLines)
    /\ \E found \in {LineAnswer(xLines[xIdx])} :
          IF found # <<>>
          THEN /\ xAnswers' = Record(xAnswers, found[1], found[2])
               /\ xLog' = IF found[1] \in DOMAIN xAnswers THEN xLog
                          ELSE Append(xLog, Message("Found answer", found[1], found[2]))
          ELSE UNCHANGED <<xAnswers, xLog>>
    /\ xIdx' = xIdx + 1
    /\ UNCHANGED <<xText, xExpected, xLines, xLetters, xPc, normVars, gradeVars,
                   scheduleVars, sheetVars, lateVars>>

\* After the line loop: too few answers, so try the alternative parsing
TryAlternative ==
    /\ xPc = "lines"
    /\ xIdx > Len(xLines)
    /\ FewerThan(AnswerCount(xAnswers), xExpected, 2)
    /\ xLog' = xLog \o <<Message("Initially extracted answers", AnswerCount(xAnswers), <<>>),
                         Message("Trying alternative parsing", 0, <<>>)>>
    /\ xIdx' = 1
    /\ xPc' = "pairs"
    /\ UNCHANGED <<xText, xExpected, xLines, xAnswers, xLetters, normVars, gradeVars,
                   scheduleVars, sheetVars, lateVars>>

\* After the line loop: enough answers
SkipAlternative ==
    /\ xPc = "lines"
    /\ xIdx > Len(xLines)
    /\ ~FewerThan(AnswerCount(xAnswers), xExpected, 2)
    /\ xLog' = Append(xLog, Message("Initially extracted answers", AnswerCount(xAnswers), <<>>))
    /\ xPc' = "check3"
    /\ UNCHANGED <<xText, xExpected, xLines, xAnswers, xLetters, xIdx, normVars, gradeVars,
                   scheduleVars, sheetVars, lateVars>>

\* One turn of `while ((simpleMatch = simplePattern.exec(allText)) !== null)`
AlternativePair ==
    /\ xPc = "pairs"
    /\ \E simpleMatch \in {NextPair(AllText(xText), xIdx)} :
          /\ simpleMatch # <<>>
          /\ \E questionNum \in {DigitsToNat(simpleMatch[1])} :
                IF questionNum > 0 /\ questionNum <= xExpected
                   /\ questionNum \notin DOMAIN xAnswers
                THEN /\ xAnswers' = Record(xAnswers, questionNum, ToUpperCase(simpleMatch[2]))
                     /\ xLog' = Append(xLog, Message("Alt parse found", questionNum,
                                                     ToUpperCase(simpleMatch[2])))
                ELSE UNCHANGED <<xAnswers, xLog>>
          /\ xIdx' = simpleMatch[3]
    /\ UNCHANGED <<xText, xExpected, xLines, xLetters, xPc, normVars, gradeVars,
                   scheduleVars, sheetVars, lateVars>>

\* simplePattern.exec returns null
EndOfPairs ==
    /\ xPc = "pairs"
    /\ NextPair(AllText(xText), xIdx) = <<>>
    /\ xPc' = "check3"
    /\ UNCHANGED <<xText, xExpected, xLines, xAnswers, xLetters, xIdx, xLog, normVars,
                   gradeVars,
                   scheduleVars, sheetVars, lateVars>>

\* The last resort: still too few answers, so look for standalone letters
TryLetterSequence ==
    /\ xPc = "check3"
    /\ FewerThan(AnswerCount(xAnswers), xExpected, 3)
    /\ xLog' = Append(xLog, Message("Trying letter sequence parsing", 0, <<>>))
    /\ \E letterMatches \in {LetterMatches(xText, 1)} :
          xLetters' = IF EnoughLetters(letterMatches, xExpected)
                      THEN Slice(CleanLetters(letterMatches), xExpected)
                      ELSE <<>>
    /\ xIdx' = 1
    /\ xPc' = "letters"
    /\ UNCHANGED <<xText, xExpected, xLines, xAnswers, normVars, gradeVars,
                   scheduleVars, sheetVars, lateVars>>

SkipLetterSequence ==
    /\ xPc = "check3"
    /\ ~FewerThan(AnswerCount(xAnswers), xExpected, 3)
    /\ xPc' = "done"
    /\ UNCHANGED <<xText, xExpected, xLines, xAnswers, xLetters, xIdx, xLog, normVars,
                   gradeVars,
                   scheduleVars, sheetVars, lateVars>>

\* One turn of `cleanLetters.slice(0, expectedCount).forEach(...)`
SequentialLetter ==
    /\ xPc = "letters"
    /\ xIdx <= Len(xLetters)
    /\ IF xIdx \notin DOMAIN xAnswers
          /\ Len(xLetters[xIdx]) = 1
          /\ xLetters[xIdx][1] \in {"A", "B", "C", "D", "E"}
       THEN /\ xAnswers' = Record(xAnswers, xIdx, xLetters[xIdx])
            /\ xLog' = Append(xLog, Message("Sequential letter", xIdx, xLetters[xIdx]))
       ELSE UNCHANGED <<xAnswers, xLog>>
    /\ xIdx' = xIdx + 1
    /\ UNCHANGED <<xText, xExpected, xLines, xLetters, xPc, normVars, gradeVars,
                   scheduleVars, sheetVars, lateVars>>

EndOfLetters ==
    /\ xPc = "letters"
    /\ xIdx > Len(xLetters)
    /\ xPc' = "done"
    /\ UNCHANGED <<xText, xExpected, xLines, xAnswers, xLetters, xIdx, xLog, normVars,
                   gradeVars,
                   scheduleVars, sheetVars, lateVars>>

NextExtract ==
    \/ SplitText
    \/ MatchLine
    \/ TryAlternative
    \/ SkipAlternative
    \/ AlternativePair
    \/ EndOfPairs
    \/ TryLetterSequence
    \/ SkipLetterSequence
    \/ SequentialLetter
    \/ EndOfLetters

SpecExtract == InitExtract /\ [][NextExtract]_vars

(***************************************************************************)
(* Claims about extractStudentAnswers                                      *)
(***************************************************************************)
\* The messages of the log that say msg, by position
Logged(msg) == {i \in 1..Len(xLog) : xLog[i].msg = msg}

\* The answers the line loop recorded, as the log tells them
LineLoopAnswers ==
    [n \in {xLog[i].num : i \in Logged("Found answer")} |->
        xLog[CHOOSE i \in Logged("Found answer") : xLog[i].num = n].text]

\* The number of answers present when message i was logged
AnswersBefore(i) ==
    Cardinality({j \in Logged("Found answer") \cup Logged("Alt parse found") : j < i})

ThreeLineExample == Chars("1. A\n2. B\n3. C")

\* C9: the alternative (inline-pair) parsing runs only when the line loop left
\* fewer than expectedCount / 2 answers, the letter-sequence parsing only when
\* fewer than expectedCount / 3 answers are present at that point; when the line
\* loop found at least expectedCount / 2 answers neither runs and the result is
\* the line loop's mapping; "1. A\n2. B\n3. C" with expectedCount 3 returns
\* {1: "A", 2: "B", 3: "C"}.
TierEscalation ==
    /\ \A i \in Logged("Trying alternative parsing") :
          2 * AnswerCount(LineLoopAnswers) < xExpected
    /\ \A i \in Logged("Trying letter sequence parsing") :
          3 * AnswersBefore(i) < xExpected
    /\ (xPc = "done" /\ 2 * AnswerCount(LineLoopAnswers) >= xExpected) =>
          /\ Logged("Trying alternative parsing") = {}
          /\ Logged("Trying letter sequence parsing") = {}
          /\ xAnswers = LineLoopAnswers
    /\ (xPc = "done" /\ xText = ThreeLineExample /\ xExpected = 3) =>
          xAnswers = <<Chars("A"), Chars("B"), Chars("C")>>

\* C9 witness: the three-line example has returned its three answers, and no
\* later parsing was tried.
TierEscalationWitness ==
    /\ xPc = "done"
    /\ xText = ThreeLineExample
    /\ xExpected = 3
    /\ xAnswers = <<Chars("A"), Chars("B"), Chars("C")>>
    /\ Logged("Trying alternative parsing") = {}
    /\ Logged("Trying letter sequence parsing") = {}

DuplicateExample == Chars("5. A\n5. B")

\* What each populated number must hold once the line loop is over: the answer
\* of the first line that has an answer for that number.
FirstLineWins ==
    xPc \in {"pairs", "check3", "letters", "done"} =>
        \A i \in 1..Len(xLines) :
            LET first == LineAnswer(xLines[i])
            IN  (/\ first # <<>>
                 /\ \A j \in 1..(i - 1) :
                       LET earlier == LineAnswer(xLines[j])
                       IN  earlier = <<>> \/ earlier[1] # first[1])
                => /\ first[1] \in DOMAIN xAnswers
                   /\ xAnswers[first[1]] = first[2]

\* C10: no step of extractStudentAnswers (a line, an inline pair, a sequential
\* letter) changes the answer of a number that already has one; a number matched
\* by the line loop keeps the answer of its first matching line; for
\* "5. A\n5. B" question 5 maps to "A".
AnswersNeverOverwritten ==
    /\ [][\A n \in DOMAIN xAnswers :
            n \in DOMAIN xAnswers' /\ xAnswers'[n] = xAnswers[n]]_vars
    /\ [](FirstLineWins)
    /\ []((xPc = "done" /\ xText = DuplicateExample) =>
            (5 \in DOMAIN xAnswers /\ xAnswers[5] = Chars("A")))

\* C10 witness: "5. A\n5. B" with expectedCount 5 has gone through the
\* alternative parsing, which met question 5 twice, and 5 still maps to "A".
DuplicateWitness ==
    /\ xPc = "done"
    /\ xText = DuplicateExample
    /\ xExpected = 5
    /\ Logged("Trying alternative parsing") # {}
    /\ Logged("Trying letter sequence parsing") # {}
    /\ xAnswers[5] = Chars("A")
    /\ AnswerCount(xAnswers) = 1

\* The numbers a step adds to the answers
Added == DOMAIN xAnswers' \ DOMAIN xAnswers

\* C21: the line loop records only numbers in 1..200, the inline-pair and the
\* sequential-letter parsing only numbers in 1..expectedCount, and every answer
\* recorded is a non-empty text.
RecordedNumbersBounded ==
    /\ [][/\ xPc = "lines" => Added \subseteq 1..MaxQuestionNum
          /\ xPc \in {"pairs", "letters"} => Added \subseteq 1..xExpected
          /\ xPc \notin {"lines", "pairs", "letters"} => Added = {}
          /\ \A n \in Added : xAnswers'[n] # <<>>]_vars
    /\ [](\A i \in Logged("Found answer") : xLog[i].num \in 1..MaxQuestionNum)
    /\ [](\A i \in Logged("Alt parse found") \cup Logged("Sequential letter") :
             xLog[i].num \in 1..xExpected)
    /\ [](\A n \in DOMAIN xAnswers : xAnswers[n] # <<>>)

\* C21 witness: "5. B\nA" with expectedCount 4 has returned: the line loop
\* recorded question 5, beyond expectedCount, the inline-pair parsing met "5. B"
\* and recorded nothing, and the second letter match went to question 2.
BoundedTiersWitness ==
    /\ xPc = "done"
    /\ xText = Chars("5. B\nA")
    /\ xExpected = 4
    /\ Logged("Trying alternative parsing") # {}
    /\ Logged("Alt parse found") = {}
    /\ Logged("Sequential letter") # {}
    /\ DOMAIN xAnswers = {2, 5}
    /\ xAnswers[2] = Chars("A")
    /\ xAnswers[5] = Chars("B")

\* The positions of the text that hold a letter A-E, in either case, with a
\* delimiter or an end of the text on each side
StandalonePositions ==
    {p \in 1..Len(xText) :
        /\ IsAnswerLetter(xText[p])
        /\ p = 1 \/ IsDelimiter(xText[p - 1])
        /\ p = Len(xText) \/ IsDelimiter(xText[p + 1])}

\* The i-th standalone letter of the text, in upper case
StandaloneLetter(i) ==
    LET p == CHOOSE q \in StandalonePositions :
                Cardinality({r \in StandalonePositions : r <= q}) = i
    IN  ToUpperCase(<<xText[p]>>)

\* The numbers that had an answer before the letter-sequence parsing
PopulatedBeforeLetters ==
    {xLog[i].num : i \in Logged("Found answer") \cup Logged("Alt parse found")}

\* C22: when the letter-sequence parsing has run on a text with k standalone
\* letters, k >= expectedCount / 2, every question i in 1..min(k, expectedCount)
\* that had no answer holds the i-th standalone letter of the text in upper case.
StandaloneLettersAssigned ==
    (/\ xPc = "done"
     /\ Logged("Trying letter sequence parsing") # {}
     /\ 2 * Cardinality(StandalonePositions) >= xExpected)
    => \A i \in 1..Min(Cardinality(StandalonePositions), xExpected) :
          i \notin PopulatedBeforeLetters =>
              /\ i \in DOMAIN xAnswers
              /\ xAnswers[i] = StandaloneLetter(i)

(***************************************************************************)
(* The lesson scheduler: findNextAvailableSlot (schedule/route.ts and      *)
(* database.ts) and findAlternativeSlots (database.ts).                    *)
(*                                                                         *)
(* An instant is a number of seconds since 00:00 local time of the Sunday  *)
(* on or before `now`.  The local time zone keeps one offset over the days *)
(* searched, and instants are whole seconds.                               *)
(***************************************************************************)
maxDaysToSearch == 14

SecondsPerDay == 24 * 60 * 60

\* addDays(date, amount)
addDays(date, amount) == date + amount * SecondsPerDay

\* date.getDay(): 0 is Sunday, 6 is Saturday
getDay(date) == (date \div SecondsPerDay) % 7

\* isWeekend(date)
isWeekend(date) == getDay(date) \in {0, 6}

\* setHours(date, hours): the hour field is replaced, the fields below it are
\* kept, and an hour of 24 rolls over into the next day
setHours(date, hours) == date + (hours - ((date % SecondsPerDay) \div 3600)) * 3600

\* setMinutes(date, minutes)
setMinutes(date, minutes) == date + (minutes - ((date % 3600) \div 60)) * 60

\* date.setSeconds(0, 0)
setSeconds(date) == date - (date % 60)

\* time.split(':').map(Number), for a TIME column's "HH:MM:SS"
RECURSIVE SplitTime(_, _)
SplitTime(s, piece) ==
    IF s = <<>> THEN <<DigitsToNat(piece)>>
    ELSE IF Head(s) = ":" THEN <<DigitsToNat(piece)>> \o SplitTime(Tail(s), <<>>)
    ELSE SplitTime(Tail(s), Append(piece, Head(s)))

\* setMinutes(setHours(currentDate, hour), min) of a rule's time; route.ts
\* then clears the seconds, database.ts keeps those of `now`
SlotInstant(impl, currentDate, time) ==
    Bind(SplitTime(Chars(time), <<>>), LAMBDA parts :
        Bind(setMinutes(setHours(currentDate, parts[1]), parts[2]), LAMBDA at :
            IF impl = "route" THEN setSeconds(at) ELSE at))

\* The candidates one day's pass over the rules pushes
RECURSIVE RuleLoop(_, _, _, _, _)
RuleLoop(impl, now, duration, currentDate, rules) ==
    IF rules = <<>> THEN <<>>
    ELSE IF getDay(currentDate) # Head(rules).day_of_week
    THEN RuleLoop(impl, now, duration, currentDate, Tail(rules))
    ELSE
        Bind(Head(rules), LAMBDA rule :
            Bind2(SlotInstant(impl, currentDate, rule.start_time),
                  SlotInstant(impl, currentDate, rule.end_time),
                  LAMBDA slotStart, slotEnd :
                (IF slotStart <= now \/ slotEnd - slotStart < duration * 60
                 THEN <<>>
                 ELSE <<[startTime |-> slotStart,
                         endTime |-> slotStart + duration * 60,
                         ruleId |-> rule.id]>>)
                \o RuleLoop(impl, now, duration, currentDate, Tail(rules))))

\* The candidates pushed from `day` on
RECURSIVE DayLoop(_, _, _, _, _)
DayLoop(impl, now, duration, rules, day) ==
    IF day >= maxDaysToSearch THEN <<>>
    ELSE
        (IF isWeekend(addDays(now, day)) THEN <<>>
         ELSE RuleLoop(impl, now, duration, addDays(now, day), rules))
        \o DayLoop(impl, now, duration, rules, day + 1)

\* Mutant: the candidates stay in the order they were pushed in.
Unsorted(candidates) == candidates

\* candidates.sort((a, b) => a.startTime.getTime() - b.startTime.getTime()):
\* the sort is stable, so candidates with one start time keep their order
RECURSIVE SortByStart(_)
SortByStart(candidates) ==
    IF candidates = <<>> THEN <<>>
    ELSE
        Bind(SortByStart(SubSeq(candidates, 1, Len(candidates) - 1)), LAMBDA sorted :
            Bind(candidates[Len(candidates)], LAMBDA last :
                Bind(Cardinality({i \in 1..Len(sorted) :
                                    sorted[i].startTime <= last.startTime}),
                     LAMBDA before :
                        SubSeq(sorted, 1, before) \o <<last>>
                        \o SubSeq(sorted, before + 1, Len(sorted)))))

\* Mutant: the half-open overlap test in place of the three-way one.
ConflictsHalfOpen(candidate, event) ==
    candidate.startTime < event.end_time /\ candidate.endTime > event.start_time

\* The test of existingEvents?.some(...) in findNextAvailableSlot
Conflicts(candidate, event) ==
    \/ candidate.startTime >= event.start_time /\ candidate.startTime < event.end_time
    \/ candidate.endTime > event.start_time /\ candidate.endTime <= event.end_time
    \/ candidate.startTime <= event.start_time /\ candidate.endTime >= event.end_time

\* The test of existingEvents?.some(...) in findAlternativeSlots
Overlaps(slotStart, slotEnd, event) ==
    slotStart < event.end_time /\ slotEnd > event.start_time

\* hasConflict: undefined, which counts as no conflict, when the query failed
hasConflict(candidate, existingEvents) ==
    /\ ~existingEvents.isNull
    /\ \E i \in 1..Len(existingEvents.rows) :
          Conflicts(candidate, existingEvents.rows[i])

\* .gte('start_time', now).lte('end_time', searchEnd) over the user's events
EventsBetween(bookings, now, searchEnd) ==
    [isNull |-> FALSE,
     rows |-> SelectSeq(bookings,
                        LAMBDA e : e.start_time >= now /\ e.end_time <= searchEnd)]

\* return null
NullSlot == [kind |-> "null"]

\* return candidate
Slot(candidate) ==
    [kind |-> "slot", startTime |-> candidate.startTime, endTime |-> candidate.endTime,
     ruleId |-> candidate.ruleId]

\* The alternatives one day's pass over the rules pushes
RECURSIVE AlternativeRuleLoop(_, _, _, _, _)
AlternativeRuleLoop(now, duration, currentDate, existingEvents, rules) ==
    IF rules = <<>> THEN <<>>
    ELSE IF getDay(currentDate) # Head(rules).day_of_week
    THEN AlternativeRuleLoop(now, duration, currentDate, existingEvents, Tail(rules))
    ELSE
        Bind(Head(rules), LAMBDA rule :
            Bind(SlotInstant("database", currentDate, rule.start_time), LAMBDA slotStart :
                (IF \/ slotStart <= now
                    \/ /\ ~existingEvents.isNull
                       /\ \E i \in 1..Len(existingEvents.rows) :
                             Overlaps(slotStart, slotStart + duration * 60,
                                      existingEvents.rows[i])
                 THEN <<>>
                 ELSE <<[startTime |-> slotStart,
                         endTime |-> slotStart + duration * 60,
                         ruleId |-> rule.id]>>)
                \o AlternativeRuleLoop(now, duration, currentDate, existingEvents,
                                       Tail(rules))))

RECURSIVE AlternativeDayLoop(_, _, _, _, _)
AlternativeDayLoop(now, duration, rules, existingEvents, day) ==
    IF day >= 7 THEN <<>>
    ELSE
        (IF isWeekend(addDays(now, day)) THEN <<>>
         ELSE AlternativeRuleLoop(now, duration, addDays(now, day), existingEvents, rules))
        \o AlternativeDayLoop(now, duration, rules, existingEvents, day + 1)

\* findAlternativeSlots, given the result of its query
findAlternativeSlots(now, duration, rules, existingEvents) ==
    Slice(AlternativeDayLoop(now, duration, rules, existingEvents, 0), 3)

(***************************************************************************)
(* SpecSchedule: one call of findNextAvailableSlot, and of                 *)
(* findAlternativeSlots after it when autoScheduleLesson found no slot.    *)
(***************************************************************************)
MaxRules == 1
MaxBookings == 1

Rule(id, day, start, end) ==
    [id |-> id, day_of_week |-> day, start_time |-> start, end_time |-> end]

\* Rules of every kind the table admits: weekdays and weekend days, a window
\* of the lesson's length, a longer one, an empty one, one that ends before it
\* starts, and one at 24:00:00, the last value of a TIME column.
RulePool ==
    {Rule("r1", 1, "09:00:00", "09:45:00"), Rule("r2", 1, "09:45:00", "24:00:00"),
     Rule("r3", 5, "09:00:00", "09:45:00"), Rule("r4", 0, "09:00:00", "09:45:00"),
     Rule("r6", 1, "09:00:00", "09:00:00"), Rule("r7", 5, "24:00:00", "24:00:00")}

RuleNamed(id) == CHOOSE r \in RulePool : r.id = id

SampleRuleLists ==
    {<<RuleNamed("r2"), RuleNamed("r1")>>, <<RuleNamed("r1"), RuleNamed("r6")>>,
     <<RuleNamed("r3"), RuleNamed("r1")>>, <<RuleNamed("r4"), RuleNamed("r1")>>,
     <<Rule("r5", 6, "09:00:00", "09:45:00")>>, <<Rule("r8", 3, "09:45:00", "09:00:00")>>}

RuleLists ==
    SampleRuleLists
    \cup {l \in SeqsUpTo(RulePool, MaxRules) :
            \A i, j \in 1..Len(l) : l[i].id = l[j].id => i = j}

\* `now`: any day of the week, half a minute before 09:00 and at 09:00
NowInstants == {day * SecondsPerDay + 9 * 3600 - back : day \in 0..6, back \in {0, 30}}

Durations == {0, 45}

\* The first day searched on which the rule gives a slot after `now`; the
\* number of days searched when there is none
NearestDay(now, rule) ==
    Bind({day \in 0..(maxDaysToSearch - 1) :
            /\ getDay(addDays(now, day)) = rule.day_of_week
            /\ SlotInstant("route", addDays(now, day), rule.start_time) > now},
         LAMBDA days :
            IF days = {} THEN maxDaysToSearch
            ELSE CHOOSE d \in days : \A e \in days : d <= e)

Event(start, end) == [start_time |-> start, end_time |-> end]

\* Events around a rule's window on its nearest day: one that covers the
\* window exactly, one of no length at its start, one that ends at its start
BookingsAround(now, rule) ==
    Bind2(SlotInstant("route", addDays(now, NearestDay(now, rule)), rule.start_time),
          SlotInstant("route", addDays(now, NearestDay(now, rule)), rule.end_time),
          LAMBDA from, to :
            {Event(from, from), Event(from - 45 * 60, from)}
            \cup (IF to >= from THEN {Event(from, to)} ELSE {}))

BookingPool(now, rules) ==
    UNION {BookingsAround(now, rules[i]) : i \in 1..Len(rules)}

InitSchedule ==
    /\ LateIdle
    /\ NormIdle
    /\ GradeIdle
    /\ ExtractIdle
    /\ SheetIdle
    /\ sImpl \in {"route", "database"}
    /\ sNow \in NowInstants
    /\ sRules \in RuleLists
    /\ sDuration \in Durations
    /\ sBookings \in SeqsUpTo(BookingPool(sNow, sRules), MaxBookings)
    /\ sEvents = NullData
    /\ sCandidates = <<>>
    /\ sIdx = 0
    /\ sResult = Pending
    /\ sAlternatives = <<>>
    /\ sPc = "fetch"

\* The query for the events of the days searched answers
FetchEvents ==
    /\ sPc = "fetch"
    /\ sEvents' = EventsBetween(sBookings, sNow, addDays(sNow, maxDaysToSearch))
    /\ sPc' = "collect"
    /\ UNCHANGED <<sImpl, sNow, sRules, sDuration, sBookings, sCandidates, sIdx, sResult,
                   sAlternatives, normVars, gradeVars, extractVars, sheetVars, lateVars>>

\* The query fails: `data` is null, and the error is not looked at
FetchFails ==
    /\ sPc = "fetch"
    /\ sEvents' = NullData
    /\ sPc' = "collect"
    /\ UNCHANGED <<sImpl, sNow, sRules, sDuration, sBookings, sCandidates, sIdx, sResult,
                   sAlternatives, normVars, gradeVars, extractVars, sheetVars, lateVars>>

\* The loop over the days and the rules
CollectCandidates ==
    /\ sPc = "collect"
    /\ sCandidates' = DayLoop(sImpl, sNow, sDuration, sRules, 0)
    /\ sPc' = "sort"
    /\ UNCHANGED <<sImpl, sNow, sRules, sDuration, sBookings, sEvents, sIdx, sResult,
                   sAlternatives, normVars, gradeVars, extractVars, sheetVars, lateVars>>

SortCandidates ==
    /\ sPc = "sort"
    /\ sCandidates' = SortByStart(sCandidates)
    /\ sIdx' = 1
    /\ sPc' = "check"
    /\ UNCHANGED <<sImpl, sNow, sRules, sDuration, sBookings, sEvents, sResult,
                   sAlternatives, normVars, gradeVars, extractVars, sheetVars, lateVars>>

\* if (!hasConflict) fails: on to the next candidate
SkipCandidate ==
    /\ sPc = "check"
    /\ sIdx <= Len(sCandidates)
    /\ hasConflict(sCandidates[sIdx], sEvents)
    /\ sIdx' = sIdx + 1
    /\ UNCHANGED <<sImpl, sNow, sRules, sDuration, sBookings, sEvents, sCandidates, sResult,
                   sAlternatives, sPc, normVars, gradeVars, extractVars, sheetVars, lateVars>>

ReturnCandidate ==
    /\ sPc = "check"
    /\ sIdx <= Len(sCandidates)
    /\ ~hasConflict(sCandidates[sIdx], sEvents)
    /\ sResult' = Slot(sCandidates[sIdx])
    /\ sPc' = "done"
    /\ UNCHANGED <<sImpl, sNow, sRules, sDuration, sBookings, sEvents, sCandidates, sIdx,
                   sAlternatives, normVars, gradeVars, extractVars, sheetVars, lateVars>>

\* return null; autoScheduleLesson then asks for alternatives, POST does not
ReturnNull ==
    /\ sPc = "check"
    /\ sIdx > Len(sCandidates)
    /\ sResult' = NullSlot
    /\ sPc' = IF sImpl = "database" THEN "returned" ELSE "done"
    /\ UNCHANGED <<sImpl, sNow, sRules, sDuration, sBookings, sEvents, sCandidates, sIdx,
                   sAlternatives, normVars, gradeVars, extractVars, sheetVars, lateVars>>

\* findAlternativeSlots, whose own query for the next 7 days answers or fails
FindAlternativeSlots ==
    /\ sPc = "returned"
    /\ \E existingEvents \in {EventsBetween(sBookings, sNow, addDays(sNow, 7)), NullData} :
          sAlternatives' = findAlternativeSlots(sNow, sDuration, sRules, existingEvents)
    /\ sPc' = "done"
    /\ UNCHANGED <<sImpl, sNow, sRules, sDuration, sBookings, sEvents, sCandidates, sIdx,
                   sResult, normVars, gradeVars, extractVars, sheetVars, lateVars>>

NextSchedule ==
    \/ FetchEvents
    \/ FetchFails
    \/ CollectCandidates
    \/ SortCandidates
    \/ SkipCandidate
    \/ ReturnCandidate
    \/ ReturnNull
    \/ FindAlternativeSlots

SpecSchedule == InitSchedule /\ [][NextSchedule]_vars

(***************************************************************************)
(* Claims about the scheduler                                              *)
(***************************************************************************)
Returned == sPc \in {"returned", "done"}

RuleOf(candidate) == CHOOSE i \in 1..Len(sRules) : sRules[i].id = candidate.ruleId

WeekendRulesGiveNoCandidate ==
    \A i \in 1..Len(sCandidates) :
        sRules[RuleOf(sCandidates[i])].day_of_week \notin {0, 6}

\* C11: findNextAvailableSlot never returns a slot that falls on a Saturday or
\* a Sunday, and no candidate comes from a rule whose day_of_week is 0 or 6.
NoWeekendSlot ==
    /\ Returned /\ sResult.kind = "slot" => ~isWeekend(sResult.startTime)
    /\ WeekendRulesGiveNoCandidate

\* The one rule of the call, the day of its nearest slot after `now`, and its
\* window on that day
OnlyRule == sRules[1]
Nearest == NearestDay(sNow, OnlyRule)
WindowStart == SlotInstant("route", addDays(sNow, Nearest), OnlyRule.start_time)
WindowEnd == SlotInstant("route", addDays(sNow, Nearest), OnlyRule.end_time)

\* One weekday rule whose window holds the lesson, and existingEvents is the
\* one booking that covers the window on the nearest day
WindowBooked ==
    /\ sImpl = "route"
    /\ Len(sRules) = 1
    /\ OnlyRule.day_of_week \in 1..5
    /\ Nearest < maxDaysToSearch
    /\ WindowEnd - WindowStart >= sDuration * 60
    /\ sEvents = [isNull |-> FALSE, rows |-> <<Event(WindowStart, WindowEnd)>>]

\* C12: with a single weekday rule and one booking that covers exactly its
\* window on the nearest future matching day, findNextAvailableSlot returns the
\* slot of the same rule one week later when that day is one of the 14 days
\* searched (offsets 0..13), and null when it is not.
BookedWindowGivesNextWeek ==
    Returned /\ WindowBooked =>
        IF Nearest + 7 <= maxDaysToSearch - 1
        THEN sResult = [kind |-> "slot",
                        startTime |-> addDays(WindowStart, 7),
                        endTime |-> addDays(WindowStart, 7) + sDuration * 60,
                        ruleId |-> OnlyRule.id]
        ELSE sResult = NullSlot

\* C12 witness: the window of the nearest day was booked and the slot of the
\* week after it came back
NextWeekWitness ==
    /\ Returned
    /\ WindowBooked
    /\ sResult.kind = "slot"
    /\ sResult.startTime = addDays(WindowStart, 7)

\* The other case: the week after is beyond the days searched, and null came back
BeyondSearchWitness == Returned /\ WindowBooked /\ Nearest = 7 /\ sResult = NullSlot

\* The candidates of the call, and those in conflict with no event of
\* existingEvents (a list that is null holds no event)
AllCandidates == {sCandidates[i] : i \in 1..Len(sCandidates)}

FreeCandidates ==
    {c \in AllCandidates :
        \A i \in 1..Len(sEvents.rows) : ~Conflicts(c, sEvents.rows[i])}

\* C13: findNextAvailableSlot returns the candidate of smallest start time among
\* those in conflict with no event of the list, and null exactly when there is
\* no such candidate (every candidate is in conflict, or there is none).
EarliestFreeCandidate ==
    Returned =>
        IF FreeCandidates = {} THEN sResult = NullSlot
        ELSE /\ sResult.kind = "slot"
             /\ \E c \in FreeCandidates : sResult = Slot(c)
             /\ \A c \in FreeCandidates : sResult.startTime <= c.startTime

\* C13 witness: the candidates were pushed out of order, the earliest one was
\* in conflict, and a later one came back
EarliestFreeWitness ==
    /\ Returned
    /\ sResult.kind = "slot"
    /\ DayLoop(sImpl, sNow, sDuration, sRules, 0) # sCandidates
    /\ AllCandidates # FreeCandidates
    /\ \E c \in AllCandidates : c.startTime < sResult.startTime

\* C14: the conflict test of findNextAvailableSlot agrees with the half-open
\* overlap test candidateStart < bookingEnd /\ candidateEnd > bookingStart on
\* every candidate and every event, events of no length and events that only
\* touch the candidate included.
ConflictTestIsHalfOpen ==
    \A c \in AllCandidates :
        \A i \in 1..Len(sEvents.rows) :
            Conflicts(c, sEvents.rows[i])
                <=> Overlaps(c.startTime, c.endTime, sEvents.rows[i])

\* The seconds after midnight of a rule's "HH:MM:SS", seconds left out
WallClock(time) ==
    Bind(SplitTime(Chars(time), <<>>), LAMBDA parts : parts[1] * 3600 + parts[2] * 60)

\* C23: a slot returned by findNextAvailableSlot starts strictly after `now`, at
\* its rule's start HH:MM with zero seconds, on a date whose weekday is the
\* rule's day_of_week and which is at most 13 days after today; it ends exactly
\* durationMinutes after its start; its rule's window is at least
\* durationMinutes long.
ReturnedSlotFitsRule ==
    (Returned /\ sResult.kind = "slot") =>
        LET rule == sRules[RuleOf(sResult)]
        IN  /\ sResult.startTime > sNow
            /\ sResult.startTime % SecondsPerDay = WallClock(rule.start_time)
            /\ sResult.startTime % 60 = 0
            /\ getDay(sResult.startTime) = rule.day_of_week
            /\ (sResult.startTime \div SecondsPerDay) - (sNow \div SecondsPerDay)
                  \in 0..(maxDaysToSearch - 1)
            /\ sResult.endTime = sResult.startTime + sDuration * 60
            /\ WallClock(rule.end_time) - WallClock(rule.start_time) >= sDuration * 60

\* The slot of database.ts that keeps the seconds of `now`
SecondsKept ==
    /\ Returned
    /\ sImpl = "database"
    /\ sResult.kind = "slot"
    /\ sResult.startTime % 60 = sNow % 60
    /\ sNow % 60 # 0
    /\ WallClock(sRules[RuleOf(sResult)].start_time) < SecondsPerDay

(***************************************************************************)
(* The grading loop of the scan handler                                    *)
(***************************************************************************)
\* /^-?\d+(?:\.\d+)?(?:\/\d+)?%?$/
NumericPattern(s) ==
    LET u == IF s # <<>> /\ Head(s) = "-" THEN Tail(s) ELSE s
        int == DigitRun(u)
        a == Drop(u, Len(int))
        frac == IF Len(a) >= 2 /\ a[1] = "." /\ a[2] \in Digits
                THEN DigitRun(Tail(a)) ELSE <<>>
        b == IF frac # <<>> THEN Drop(a, 1 + Len(frac)) ELSE a
        den == IF Len(b) >= 2 /\ b[1] = "/" /\ b[2] \in Digits
               THEN DigitRun(Tail(b)) ELSE <<>>
        c == IF den # <<>> THEN Drop(b, 1 + Len(den)) ELSE b
    IN  int # <<>> /\ c \in {<<>>, <<"%">>}

detectQuestionType(answer) ==
    Bind(ToLowerCase(Trim(answer)), LAMBDA normalized :
        IF /\ Len(normalized) \in {1, 2}
           /\ normalized[1] \in McLetters
           /\ Len(normalized) = 2 => normalized[2] \in {".", ")", ":"}
        THEN "multiple_choice"
        ELSE IF normalized \in {Chars("true"), Chars("false"), Chars("t"), Chars("f"),
                                Chars("yes"), Chars("no")}
        THEN "true_false"
        ELSE IF NumericPattern(SelectSeq(normalized, LAMBDA c : ~IsSpace(c)))
        THEN "math"
        ELSE IF Len(SplitSpaces(normalized, <<>>)) <= 3
        THEN "fill_in"
        ELSE "short_answer")

\* Mutant: no answer is found for any question.
NoStudentAnswer(studentAnswers, keyItem) == <<>>

\* studentAnswers[keyItem.question_number] || ''
StudentAnswerOf(studentAnswers, keyItem) ==
    IF keyItem.question_number \in DOMAIN studentAnswers
    THEN studentAnswers[keyItem.question_number]
    ELSE <<>>

\* keyItem.question_type || detectQuestionType(keyItem.correct_answer)
QuestionTypeOf(keyItem) ==
    IF keyItem.question_type = "null"
    THEN detectQuestionType(keyItem.correct_answer)
    ELSE keyItem.question_type

\* keyItem.points || 1
PointsOf(keyItem) == IF keyItem.points = 0 THEN 1 ELSE keyItem.points

\* Array.isArray(keyItem.accepted_variants) ? keyItem.accepted_variants : []
VariantsOf(keyItem) ==
    IF keyItem.accepted_variants.isArray THEN keyItem.accepted_variants.items ELSE <<>>

\* The record pushed onto questionGrades for a key item
QuestionGrade(studentAnswers, keyItem) ==
    Bind(gradeQuestion(StudentAnswerOf(studentAnswers, keyItem), keyItem.correct_answer,
                       QuestionTypeOf(keyItem),
                       [pointsPossible |-> PointsOf(keyItem),
                        acceptedVariants |-> VariantsOf(keyItem),
                        tolerance |-> "undefined"]),
         LAMBDA result :
            [question_number |-> keyItem.question_number,
             student_answer |-> StudentAnswerOf(studentAnswers, keyItem),
             correct_answer |-> keyItem.correct_answer,
             points_possible |-> PointsOf(keyItem),
             points_earned |-> result.pointsEarned,
             is_correct |-> result.isCorrect,
             confidence |-> result.confidence,
             needs_review |-> result.needsReview])

(***************************************************************************)
(* SpecSheet: one sheet graded against an answer key.                      *)
(***************************************************************************)
MaxItems == 2

NoVariants == [isArray |-> TRUE, items |-> <<>>]

\* What a key item holds besides its number
ItemPool ==
    {[correct_answer |-> Chars("A"), question_type |-> "multiple_choice", points |-> 1,
      accepted_variants |-> NoVariants],
     [correct_answer |-> Chars("42"), question_type |-> "math", points |-> 2,
      accepted_variants |-> NoVariants],
     [correct_answer |-> Chars("paris"), question_type |-> "fill_in", points |-> 0,
      accepted_variants |-> [isArray |-> FALSE, items |-> <<>>]],
     [correct_answer |-> Chars("True"), question_type |-> "null", points |-> 2,
      accepted_variants |-> [isArray |-> TRUE, items |-> <<Chars("yes")>>]]}

\* The key items, numbered from 1 in the order of the query
KeyItems(contents) ==
    [i \in 1..Len(contents) |->
        [question_number |-> i,
         correct_answer |-> contents[i].correct_answer,
         question_type |-> contents[i].question_type,
         points |-> contents[i].points,
         accepted_variants |-> contents[i].accepted_variants]]

\* What the extractor may hold for a question
AnswerPool == {Chars("a."), Chars("42.0"), Chars("pariz"), Chars("yes")}

\* The answers extracted for some of the questions 1..n
AnswerSheets(n) == UNION {[numbers -> AnswerPool] : numbers \in SUBSET (1..n)}

InitSheet ==
    /\ LateIdle
    /\ NormIdle
    /\ GradeIdle
    /\ ExtractIdle
    /\ ScheduleIdle
    /\ kItems \in {KeyItems(contents) : contents \in SeqsUpTo(ItemPool, MaxItems)} \ {<<>>}
    /\ kStudentAnswers \in AnswerSheets(Len(kItems))
    /\ kIdx = 1
    /\ kGrades = <<>>
    /\ kEarned = 0
    /\ kPossible = 0
    /\ kReview = 0
    /\ kPc = "loop"

\* One pass of the loop over keyItems
GradeItem ==
    /\ kPc = "loop"
    /\ kIdx <= Len(kItems)
    /\ \E grade \in {QuestionGrade(kStudentAnswers, kItems[kIdx])} :
          /\ kGrades' = Append(kGrades, grade)
          /\ kEarned' = kEarned + grade.points_earned
          /\ kPossible' = kPossible + PointsOf(kItems[kIdx])
    /\ kIdx' = kIdx + 1
    /\ UNCHANGED <<kItems, kStudentAnswers, kReview, kPc, normVars, gradeVars, extractVars,
                   scheduleVars, lateVars>>

\* The result message: needsReview counts the flagged question grades
SendResult ==
    /\ kPc = "loop"
    /\ kIdx > Len(kItems)
    /\ kReview' = Cardinality({i \in 1..Len(kGrades) : kGrades[i].needs_review})
    /\ kPc' = "sent"
    /\ UNCHANGED <<kItems, kStudentAnswers, kIdx, kGrades, kEarned, kPossible, normVars,
                   gradeVars, extractVars, scheduleVars, lateVars>>

NextSheet == GradeItem \/ SendResult

SpecSheet == InitSheet /\ [][NextSheet]_vars

(***************************************************************************)
(* Claims about the grading loop                                           *)
(***************************************************************************)
RECURSIVE SumOf(_, _)
SumOf(grades, field) ==
    IF grades = <<>> THEN 0
    ELSE grades[Len(grades)][field] + SumOf(SubSeq(grades, 1, Len(grades) - 1), field)

\* The key and the answers of the example
ExampleSheet ==
    /\ Len(kItems) = 2
    /\ kItems[1].correct_answer = Chars("A") /\ kItems[1].question_type = "multiple_choice"
    /\ kItems[1].points = 1
    /\ kItems[2].correct_answer = Chars("42") /\ kItems[2].question_type = "math"
    /\ kItems[2].points = 2
    /\ kStudentAnswers = (1 :> Chars("a.")) @@ (2 :> Chars("42.0"))

\* C15: the loop visits each key item once, in order; totalEarned and
\* totalPossible are the sums of the question grades' points_earned and
\* points_possible, with 0 <= totalEarned <= totalPossible; needsReview of the
\* result counts the flagged grades; and the example sheet is graded 3/3 with
\* both questions correct and nothing to review.
SheetTotals ==
    /\ Len(kGrades) = kIdx - 1
    /\ \A i \in 1..Len(kGrades) : kGrades[i].question_number = kItems[i].question_number
    /\ kEarned = SumOf(kGrades, "points_earned")
    /\ kPossible = SumOf(kGrades, "points_possible")
    /\ 0 <= kEarned /\ kEarned <= kPossible
    /\ kPc = "sent" =>
          /\ Len(kGrades) = Len(kItems)
          /\ kReview = Cardinality({i \in 1..Len(kGrades) : kGrades[i].needs_review})
          /\ ExampleSheet =>
                /\ kGrades[1].is_correct /\ kGrades[1].points_earned = 1
                /\ kGrades[2].is_correct /\ kGrades[2].points_earned = 2
                /\ kEarned = 3 /\ kPossible = 3
                /\ kReview = 0

\* C15 witness: the example sheet has been graded
ExampleSheetWitness == kPc = "sent" /\ ExampleSheet /\ kEarned = 3

(***************************************************************************)
(* SpecSimilarity: calculateSimilarity on a pair of strings, and on the    *)
(* pair swapped                                                            *)
(***************************************************************************)
MaxSimLen == 3

SimilarityInputs ==
    StringsUpTo({"a", "b"}, MaxSimLen) \cup CharsOf({"paris", "pariz", "pari", "abc"})

InitSimilarity ==
    /\ EarlyIdle
    /\ SubjectIdle
    /\ BookingIdle
    /\ StreamIdle
    /\ mA \in SimilarityInputs
    /\ mB \in SimilarityInputs
    /\ mResult = "undefined"
    /\ mSwapped = "undefined"
    /\ mPc = "call"

CalculateSimilarity ==
    /\ mPc = "call"
    /\ mResult' = calculateSimilarity(mA, mB)
    /\ mPc' = "swap"
    /\ UNCHANGED <<mA, mB, mSwapped, earlyVars, subjectVars, bookingVars, streamVars>>

CalculateSwapped ==
    /\ mPc = "swap"
    /\ mSwapped' = calculateSimilarity(mB, mA)
    /\ mPc' = "done"
    /\ UNCHANGED <<mA, mB, mResult, earlyVars, subjectVars, bookingVars, streamVars>>

NextSimilarity == CalculateSimilarity \/ CalculateSwapped

SpecSimilarity == InitSimilarity /\ [][NextSimilarity]_vars

(***************************************************************************)
(* Claims about calculateSimilarity                                        *)
(***************************************************************************)
\* The least number of insertions, deletions and substitutions of one
\* character that turn a into b
RECURSIVE EditDistance(_, _)
EditDistance(a, b) ==
    IF a = <<>> THEN Len(b)
    ELSE IF b = <<>> THEN Len(a)
    ELSE Min(EditDistance(Tail(a), Tail(b)) + (IF Head(a) = Head(b) THEN 0 ELSE 1),
             Min(EditDistance(Tail(a), b) + 1, EditDistance(a, Tail(b)) + 1))

\* C24: calculateSimilarity(a, b) is 1 - d(a, b) / max(len(a), len(b)) with d
\* the edit distance; it is 1 for two empty strings and 0 when exactly one is
\* empty; it is symmetric, lies in [0, 1], and is 1 only when a = b.
SimilarityIsEditDistanceRatio ==
    mPc = "done" =>
        /\ (mA = <<>> /\ mB = <<>>) => mResult = FromNat(1)
        /\ (mA = <<>>) # (mB = <<>>) => mResult = FromNat(0)
        /\ (mA # <<>> /\ mB # <<>>) =>
              mResult = DSub(FromNat(1), DDiv(FromNat(EditDistance(mA, mB)),
                                              FromNat(Max(Len(mA), Len(mB)))))
        /\ mResult = mSwapped
        /\ DLeq(FromNat(0), mResult)
        /\ DLeq(mResult, FromNat(1))
        /\ mResult = FromNat(1) => mA = mB

\* C24 witness: "paris" against "pariz", one substitution in five characters,
\* came out as 0.8 in both orders
SimilarityWitness ==
    /\ mPc = "done"
    /\ mA = Chars("paris")
    /\ mB = Chars("pariz")
    /\ mResult = Literal("0.8")
    /\ mSwapped = Literal("0.8")

(***************************************************************************)
(* The selection of the schedule rules of a subject: the filter of POST    *)
(* (schedule/route.ts) and the query of autoScheduleLesson (database.ts)   *)
(***************************************************************************)
\* text ILIKE pattern: % stands for any run of characters, _ for any one
\* character, a backslash takes the character after it literally, and letters
\* match in either case
RECURSIVE ILike(_, _)
ILike(text, pattern) ==
    IF pattern = <<>> THEN text = <<>>
    ELSE IF Head(pattern) = "%"
    THEN \E k \in 0..Len(text) : ILike(Drop(text, k), Tail(pattern))
    ELSE IF Head(pattern) = "_"
    THEN text # <<>> /\ ILike(Tail(text), Tail(pattern))
    ELSE IF Head(pattern) = "\\" /\ Len(pattern) > 1
    THEN /\ text # <<>>
         /\ LowerChar(Head(text)) = LowerChar(pattern[2])
         /\ ILike(Tail(text), Drop(pattern, 2))
    ELSE /\ text # <<>>
         /\ LowerChar(Head(text)) = LowerChar(Head(pattern))
         /\ ILike(Tail(text), Tail(pattern))

\* The filter of route.ts: either lower-cased subject includes the other
SubjectMatches(r, subject) ==
    \/ StringIncludes(ToLowerCase(r.subject), ToLowerCase(subject))
    \/ StringIncludes(ToLowerCase(subject), ToLowerCase(r.subject))

\* .or(`subject.ilike.%${subject}%,subject.eq.${subject}`) of database.ts
SubjectSelected(r, subject) ==
    \/ ILike(r.subject, <<"%">> \o subject \o <<"%">>)
    \/ r.subject = subject

(***************************************************************************)
(* SpecSubject: one selection of rules for a requested subject             *)
(***************************************************************************)
MaxSubjectRules == 2

SubjectPool == CharsOf({"Math", "MATH", "Mathematics", "Art", "M_th", "Moth"})

SubjectRule(id, subject) == [id |-> id, subject |-> subject]

InitSubject ==
    /\ EarlyIdle
    /\ SimilarityIdle
    /\ BookingIdle
    /\ StreamIdle
    /\ jImpl \in {"route", "database"}
    /\ jSubject \in SubjectPool
    /\ \E subjects \in SeqsUpTo(SubjectPool, MaxSubjectRules) :
          jRules = [i \in 1..Len(subjects) |-> SubjectRule(i, subjects[i])]
    /\ jMatching = <<>>
    /\ jPc = "select"

\* const matchingRules = rules?.filter(...) || []
FilterRules ==
    /\ jPc = "select"
    /\ jImpl = "route"
    /\ jMatching' = SelectSeq(jRules, LAMBDA r : SubjectMatches(r, jSubject))
    /\ jPc' = "done"
    /\ UNCHANGED <<jImpl, jSubject, jRules, earlyVars, similarityVars, bookingVars, streamVars>>

\* The rows the query of autoScheduleLesson answers with
QueryRules ==
    /\ jPc = "select"
    /\ jImpl = "database"
    /\ jMatching' = SelectSeq(jRules, LAMBDA r : SubjectSelected(r, jSubject))
    /\ jPc' = "done"
    /\ UNCHANGED <<jImpl, jSubject, jRules, earlyVars, similarityVars, bookingVars, streamVars>>

NextSubject == FilterRules \/ QueryRules

SpecSubject == InitSubject /\ [][NextSubject]_vars

(***************************************************************************)
(* Claims about the rule selection                                         *)
(***************************************************************************)
\* One string contains the other, ignoring case
EitherContains(x, y) ==
    \/ StringIncludes(ToLowerCase(x), ToLowerCase(y))
    \/ StringIncludes(ToLowerCase(y), ToLowerCase(x))

\* C25: in both implementations a rule is selected for the requested subject
\* exactly when, ignoring case, the rule's subject contains the requested
\* subject or the requested subject contains the rule's subject.
SelectedIffEitherContains ==
    jPc = "done" =>
        \A i \in 1..Len(jRules) :
            (\E k \in 1..Len(jMatching) : jMatching[k] = jRules[i])
                <=> EitherContains(jRules[i].subject, jSubject)

\* The selection of autoScheduleLesson that leaves out a rule whose subject is
\* part of the requested one
ShorterRuleLeftOut ==
    /\ jPc = "done"
    /\ jImpl = "database"
    /\ jSubject = Chars("Mathematics")
    /\ jRules = <<SubjectRule(1, Chars("Math"))>>
    /\ jMatching = <<>>

(***************************************************************************)
(* The auto-schedule request: POST of schedule/route.ts and                *)
(* autoScheduleLesson of database.ts, from the query for the existing      *)
(* events to the insert of the new one.  The query for the lesson plan's   *)
(* title, between the two, changes nothing here and is left out.           *)
(***************************************************************************)
\* for (const candidate of candidates) { if (!hasConflict) return candidate }
\* return null
RECURSIVE FirstFree(_, _)
FirstFree(candidates, existingEvents) ==
    IF candidates = <<>> THEN NullSlot
    ELSE IF hasConflict(Head(candidates), existingEvents)
    THEN FirstFree(Tail(candidates), existingEvents)
    ELSE Slot(Head(candidates))

\* findNextAvailableSlot, given the answer to its query
findNextAvailableSlot(impl, now, duration, rules, existingEvents) ==
    FirstFree(SortByStart(DayLoop(impl, now, duration, rules, 0)), existingEvents)

(***************************************************************************)
(* SpecBooking: requests of one user that run side by side                 *)
(***************************************************************************)
MaxRequests == 2
MaxStored == 1

\* A Monday, half a minute before 09:00
BookingNow == SecondsPerDay + 9 * 3600 - 30

\* The first window of the rules, on the Monday of `now` at 09:00
MondayNine == SecondsPerDay + 9 * 3600

\* Events the user may have: one in the window, one that began before `now`
\* and runs through the window, one from the window's start until after the
\* days searched, one well before the window
StoredPool ==
    {Event(MondayNine, MondayNine + 45 * 60),
     Event(MondayNine - 3600, MondayNine + 3600),
     Event(MondayNine, addDays(MondayNine, 15)),
     Event(MondayNine - 7200, MondayNine - 3600)}

BookingRuleLists ==
    {<<RuleNamed("r1")>>, <<RuleNamed("r1"), RuleNamed("r2")>>, <<RuleNamed("r3")>>}

Request(pc, existingEvents, slot) ==
    [pc |-> pc, existingEvents |-> existingEvents, slot |-> slot]

InitBooking ==
    /\ EarlyIdle
    /\ SimilarityIdle
    /\ SubjectIdle
    /\ StreamIdle
    /\ bImpl \in {"route", "database"}
    /\ bNow = BookingNow
    /\ bRules \in BookingRuleLists
    /\ bDuration = 45
    /\ bStored \in SeqsUpTo(StoredPool, MaxStored)
    /\ bTable = bStored
    /\ bReq = [r \in 1..MaxRequests |-> Request("read", NullData, Pending)]

\* The query for the existing events answers with the rows of this instant
ReadEvents(r) ==
    /\ bReq[r].pc = "read"
    /\ bReq' = [bReq EXCEPT ![r] =
                    Request("pick",
                            EventsBetween(bTable, bNow, addDays(bNow, maxDaysToSearch)),
                            Pending)]
    /\ UNCHANGED <<bImpl, bNow, bRules, bDuration, bStored, bTable, earlyVars,
                   similarityVars, subjectVars, streamVars>>

\* The query fails: `data` is null, and the error is not looked at
ReadFails(r) ==
    /\ bReq[r].pc = "read"
    /\ bReq' = [bReq EXCEPT ![r] = Request("pick", NullData, Pending)]
    /\ UNCHANGED <<bImpl, bNow, bRules, bDuration, bStored, bTable, earlyVars,
                   similarityVars, subjectVars, streamVars>>

\* The rest of findNextAvailableSlot, and `if (!slot) return ...` after it
PickSlot(r) ==
    /\ bReq[r].pc = "pick"
    /\ \E slot \in {findNextAvailableSlot(bImpl, bNow, bDuration, bRules,
                                          bReq[r].existingEvents)} :
          bReq' = [bReq EXCEPT ![r] =
                      Request(IF slot = NullSlot THEN "refused" ELSE "insert",
                              bReq[r].existingEvents, slot)]
    /\ UNCHANGED <<bImpl, bNow, bRules, bDuration, bStored, bTable, earlyVars,
                   similarityVars, subjectVars, streamVars>>

\* .from('calendar_events').insert({start_time, end_time, ...}) succeeds
InsertEvent(r) ==
    /\ bReq[r].pc = "insert"
    /\ bTable' = Append(bTable, Event(bReq[r].slot.startTime, bReq[r].slot.endTime))
    /\ bReq' = [bReq EXCEPT ![r].pc = "created"]
    /\ UNCHANGED <<bImpl, bNow, bRules, bDuration, bStored, earlyVars, similarityVars,
                   subjectVars, streamVars>>

\* if (eventError) return {success: false, ...}
InsertFails(r) ==
    /\ bReq[r].pc = "insert"
    /\ bReq' = [bReq EXCEPT ![r].pc = "failed"]
    /\ UNCHANGED <<bImpl, bNow, bRules, bDuration, bStored, bTable, earlyVars,
                   similarityVars, subjectVars, streamVars>>

NextBooking ==
    \E r \in 1..MaxRequests :
        \/ ReadEvents(r)
        \/ ReadFails(r)
        \/ PickSlot(r)
        \/ InsertEvent(r)
        \/ InsertFails(r)

SpecBooking == InitBooking /\ [][NextBooking]_vars

(***************************************************************************)
(* Claims about the auto-schedule requests                                 *)
(***************************************************************************)
Requests == 1..MaxRequests

\* The requests that have inserted their event
Created == {r \in Requests : bReq[r].pc = "created"}

\* The event of a request's slot
SlotEvent(r) == Event(bReq[r].slot.startTime, bReq[r].slot.endTime)

\* The two events share more than an instant
EventsOverlap(e, f) == Overlaps(e.start_time, e.end_time, f)

\* The candidates of a request
BookingCandidates == DayLoop(bImpl, bNow, bDuration, bRules, 0)

\* C28: the event a request creates overlaps none of the events the user had,
\* those that began before `now` and those that end after the days searched
\* included; and the events a request got from its query include every stored
\* event that overlaps one of its candidates.
CreatedEventOverlapsNoStoredEvent ==
    /\ \A r \in Created :
          \A i \in 1..Len(bStored) : ~EventsOverlap(SlotEvent(r), bStored[i])
    /\ \A r \in Requests :
          (bReq[r].pc # "read" /\ ~bReq[r].existingEvents.isNull) =>
              \A i \in 1..Len(bStored) :
                  (\E k \in 1..Len(BookingCandidates) :
                      Overlaps(BookingCandidates[k].startTime,
                               BookingCandidates[k].endTime, bStored[i]))
                  => ArrayIncludes(bReq[r].existingEvents.rows, bStored[i])

\* The request whose query answered, and whose event lies inside a stored
\* event that began before `now`
RunningEventOverlapped ==
    \E r \in Created :
        /\ ~bReq[r].existingEvents.isNull
        /\ bStored = <<Event(MondayNine - 3600, MondayNine + 3600)>>
        /\ SlotEvent(r) = Event(MondayNine, MondayNine + 45 * 60)

\* The same with a stored event that ends after the days searched
LongEventOverlapped ==
    \E r \in Created :
        /\ ~bReq[r].existingEvents.isNull
        /\ bStored = <<Event(MondayNine, addDays(MondayNine, 15))>>
        /\ SlotEvent(r) = Event(MondayNine, MondayNine + 45 * 60)

\* C29: the events inserted by two requests that run side by side never overlap.
ConcurrentEventsDisjoint ==
    \A r, q \in Created : r # q => ~EventsOverlap(SlotEvent(r), SlotEvent(q))

\* Two requests whose queries both answered, before either insert, and which
\* created the same event
SameSlotTwice ==
    \E r, q \in Created :
        /\ r # q
        /\ ~bReq[r].existingEvents.isNull
        /\ ~bReq[q].existingEvents.isNull
        /\ bStored = <<>>
        /\ SlotEvent(r) = SlotEvent(q)

(***************************************************************************)
(* The grading event-stream handlers: `start` of the ReadableStream of     *)
(* POST in part_002 (OCR grading) and in scanner/grade/route.ts (AI        *)
(* grading).  A step of the model is the code between two awaits.  The     *)
(* stream follows the Streams standard: close() and enqueue() throw a      *)
(* TypeError once close was requested, and a rejected start() puts a       *)
(* stream that is still readable into the errored state, dropping the      *)
(* chunks not yet read.                                                    *)
(***************************************************************************)
ErrorEvent(message) == [kind |-> "error", message |-> message]
ProgressEvent(current) == [kind |-> "progress", message |-> current]
ResultEvent == [kind |-> "result", message |-> "grade"]

\* controller.enqueue(chunk): a pending read takes the chunk, if not it is queued
Enqueue(ctl, chunk) ==
    IF ctl.state # "readable" \/ ctl.closeRequested
    THEN [ctl EXCEPT !.typeErrors = @ + 1]
    ELSE IF ctl.pending
    THEN [ctl EXCEPT !.delivered = Append(@, chunk), !.pending = FALSE]
    ELSE [ctl EXCEPT !.queue = Append(@, chunk)]

\* controller.close(): the stream closes when its queue is empty, and when the
\* consumer has emptied it if not
Close(ctl) ==
    IF ctl.state # "readable" \/ ctl.closeRequested
    THEN [ctl EXCEPT !.closeCalls = @ + 1, !.typeErrors = @ + 1]
    ELSE [ctl EXCEPT !.closeCalls = @ + 1, !.closeRequested = TRUE,
                     !.state = IF ctl.queue = <<>> THEN "closed" ELSE @,
                     !.pending = FALSE]

\* start() rejects: the stream, if still readable, is errored and its queue reset
StartRejected(ctl) ==
    IF ctl.state # "readable" THEN ctl
    ELSE [ctl EXCEPT !.state = "errored", !.queue = <<>>, !.pending = FALSE]

\* finally { controller.close() }: a TypeError thrown here rejects start()
Finally(ctl) ==
    Bind(Close(ctl), LAMBDA closed :
        IF closed.typeErrors > ctl.typeErrors THEN StartRejected(closed) ELSE closed)

\* send({ error }); controller.close(); return -- and the finally block after it
ReturnError(message) ==
    /\ eSent' = Append(eSent, ErrorEvent(message))
    /\ eCtl' = Finally(Close(Enqueue(eCtl, ErrorEvent(message))))
    /\ ePc' = "ended"
    /\ UNCHANGED <<eImpl, earlyVars, similarityVars, subjectVars, bookingVars>>

\* send({ progress }) and on to the next await
SendProgress(current, pc) ==
    /\ eSent' = Append(eSent, ProgressEvent(current))
    /\ eCtl' = Enqueue(eCtl, ProgressEvent(current))
    /\ ePc' = pc
    /\ UNCHANGED <<eImpl, earlyVars, similarityVars, subjectVars, bookingVars>>

(***************************************************************************)
(* SpecStream: one request to a grading handler, and the consumer of its   *)
(* response                                                                *)
(***************************************************************************)
Awaits == {"auth", "body", "key", "images", "ai", "save"}

InitStream ==
    /\ EarlyIdle
    /\ SimilarityIdle
    /\ SubjectIdle
    /\ BookingIdle
    /\ eImpl \in {"ocr", "ai"}
    /\ ePc = "auth"
    /\ eSent = <<>>
    /\ eCtl = NewStream

\* if (!user)
Unauthorized == ePc = "auth" /\ ReturnError("Unauthorized")

Authenticated ==
    /\ ePc = "auth"
    /\ ePc' = "body"
    /\ UNCHANGED <<eImpl, eSent, eCtl, earlyVars, similarityVars, subjectVars, bookingVars>>

\* The two tests of the request body
BadRequest ==
    /\ ePc = "body"
    /\ \E message \in {"No images provided", "Assignment and answer key required"} :
          ReturnError(message)

AcceptRequest == ePc = "body" /\ SendProgress(0, "key")

\* if (keyError || !keyItems || keyItems.length === 0)
KeyMissing == ePc = "key" /\ ReturnError("Answer key not found or empty")

KeyLoaded == ePc = "key" /\ SendProgress(1, "images")

\* if (imageBase64List.length === 0), of the AI handler only: the OCR handler
\* goes on with an empty text
ImagesFail == ePc = "images" /\ eImpl = "ai" /\ ReturnError("Failed to process images")

ImagesProcessed ==
    /\ ePc = "images"
    /\ SendProgress(2, IF eImpl = "ai" THEN "ai" ELSE "save")

\* catch (parseError), of the AI handler
ParseFails == ePc = "ai" /\ ReturnError("Failed to parse AI grading results")

Parsed == ePc = "ai" /\ SendProgress(3, "save")

\* if (gradeError)
SaveFails == ePc = "save" /\ ReturnError("Failed to save grade")

\* send({ progress }); send({ result }), then the finally block
Saved ==
    /\ ePc = "save"
    /\ \E last \in {IF eImpl = "ai" THEN 4 ELSE 3} :
          /\ eSent' = eSent \o <<ProgressEvent(last), ResultEvent>>
          /\ eCtl' = Finally(Enqueue(Enqueue(eCtl, ProgressEvent(last)), ResultEvent))
    /\ ePc' = "ended"
    /\ UNCHANGED <<eImpl, earlyVars, similarityVars, subjectVars, bookingVars>>

\* An await throws: catch (error) { send({ error }) }, then the finally block
Throws ==
    /\ ePc \in Awaits
    /\ eSent' = Append(eSent, ErrorEvent("Grading failed"))
    /\ eCtl' = Finally(Enqueue(eCtl, ErrorEvent("Grading failed")))
    /\ ePc' = "ended"
    /\ UNCHANGED <<eImpl, earlyVars, similarityVars, subjectVars, bookingVars>>

\* The consumer of the response calls read(): it gets the first chunk queued,
\* or waits
ConsumerReads ==
    /\ ePc # "idle"
    /\ eCtl.state = "readable"
    /\ ~eCtl.pending
    /\ eCtl' = IF eCtl.queue = <<>> THEN [eCtl EXCEPT !.pending = TRUE]
               ELSE [eCtl EXCEPT !.delivered = Append(@, Head(eCtl.queue)),
                                 !.queue = Tail(@),
                                 !.state = IF eCtl.closeRequested /\ Len(eCtl.queue) = 1
                                           THEN "closed" ELSE @]
    /\ UNCHANGED <<eImpl, ePc, eSent, earlyVars, similarityVars, subjectVars, bookingVars>>

NextStream ==
    \/ Unauthorized
    \/ Authenticated
    \/ BadRequest
    \/ AcceptRequest
    \/ KeyMissing
    \/ KeyLoaded
    \/ ImagesFail
    \/ ImagesProcessed
    \/ ParseFails
    \/ Parsed
    \/ SaveFails
    \/ Saved
    \/ Throws
    \/ ConsumerReads

SpecStream == InitStream /\ [][NextStream]_vars

(***************************************************************************)
(* Claims about the grading event-stream handlers                          *)
(***************************************************************************)
\* The positions of eSent that hold an error or a result
Terminals == {i \in 1..Len(eSent) : eSent[i].kind \in {"error", "result"}}

\* C30: on every path the handler sends exactly one terminal event, an error or
\* a result, sends nothing after it, and closes the controller exactly once.
OneTerminalEventOneClose ==
    ePc = "ended" =>
        /\ Cardinality(Terminals) = 1
        /\ Len(eSent) \in Terminals
        /\ eCtl.closeCalls = 1

\* The unauthorized request whose error event never reaches the consumer: the
\* second close() threw, start() rejected, and the stream was errored with the
\* event still in its queue
ErrorEventLost ==
    /\ ePc = "ended"
    /\ eSent = <<ErrorEvent("Unauthorized")>>
    /\ eCtl.closeCalls = 2
    /\ eCtl.typeErrors = 1
    /\ eCtl.state = "errored"
    /\ eCtl.delivered = <<>>
    /\ eCtl.queue = <<>>
====
